---- MODULE Spec2Model ----
(***************************************************************************)
(* HASCILL Crypto Race: the cipher reference engine (game_core.py) and the *)
(* asyncio match server (hillplus_async_server.py) as a state machine.     *)
(*                                                                         *)
(* Every coroutine of the server is a task with a program counter; one     *)
(* action runs a task from one await that may suspend to the next one.     *)
(***************************************************************************)
EXTENDS Integers, Sequences, FiniteSets, TLC

(***************************************************************************)
(* Program constants                                                       *)
(***************************************************************************)
MAX_TEAMS == 6
N == 2
PRIME_SEED_BASE == 257
PRIME_SEED_MOD == 1000
MAX_ATTEMPTS == 16
ASCII_LEN == 4
RATE_LIMIT_MAX == 6

(***************************************************************************)
(* Bounds of the model                                                     *)
(***************************************************************************)
\* team ids clients may join: 1..NTeams
NTeams == 2
\* connections accepted during a run
MaxClients == 2
\* disturbances of a run: admin commands other than resume, and client messages a well-behaved
\* client would not send (a step_answer that is not the pending step's right
\* answer from the player whose turn it is, a ready from a client that is
\* marked READY already)
MaxDisturb == 1
\* rejected calls made on the GameState that is driven through validate_step
\* directly
MaxErrors == 2
\* length of the passwords derive_prime_from_password is called on: their
\* byte sums run over 0 .. 127 * PwLen, past PRIME_SEED_MOD
PwLen == 8
\* derive_params_from_password is called on the passwords whose first two
\* characters are among the first PwSpan lower-case letters
PwSpan == 10
\* the plaintexts encrypted have up to MaxText characters, the block sizes
\* are 1 .. MaxBlock
MaxText == 2
MaxBlock == 3
\* pkcs7_pad is called on lists of up to MaxData values
MaxData == 4
\* console commands of a run of the two start sequences
MaxAdminOps == 2

(***************************************************************************)
(* Sequence helpers                                                        *)
(***************************************************************************)
None == <<>>

Range(s) == {s[i] : i \in 1..Len(s)}

RECURSIVE SumSeq(_)
SumSeq(s) == IF s = <<>> THEN 0 ELSE Head(s) + SumSeq(Tail(s))

\* a removal that drops the last element, whatever x is
RemoveLast(s, x) == IF s = <<>> THEN <<>> ELSE SubSeq(s, 1, Len(s) - 1)

\* deque.remove(x) / dict.pop(x): drop the first occurrence of x
RECURSIVE RemoveFirst(_, _)
RemoveFirst(s, x) ==
    IF s = <<>> THEN <<>>
    ELSE IF Head(s) = x THEN Tail(s)
    ELSE <<Head(s)>> \o RemoveFirst(Tail(s), x)

(***************************************************************************)
(* game_core.py: modular arithmetic                                        *)
(***************************************************************************)
RECURSIVE HasOddDivisorFrom(_, _)
HasOddDivisorFrom(p, i) ==
    IF i * i > p THEN FALSE
    ELSE IF p % i = 0 THEN TRUE
    ELSE HasOddDivisorFrom(p, i + 2)

is_prime(p) ==
    IF p < 2 THEN FALSE
    ELSE IF p % 2 = 0 THEN p = 2
    ELSE ~HasOddDivisorFrom(p, 3)

\* a condition that forgets the residue mod 3
PrimeCondSizeOnly(p) == p >= PRIME_SEED_BASE

\* the condition derive_prime_from_password passes to next_prime_condition
PrimeCond(p) == (p - 1) % 3 # 0 /\ p >= PRIME_SEED_BASE

RECURSIVE NextPrimeFrom(_)
NextPrimeFrom(p) ==
    IF is_prime(p) /\ PrimeCond(p) THEN p ELSE NextPrimeFrom(p + 2)

next_prime_condition(start) ==
    LET p0 == IF start > 2 THEN start ELSE 2
        p1 == IF p0 % 2 = 0 /\ p0 # 2 THEN p0 + 1 ELSE p0
    IN  NextPrimeFrom(p1)

derive_prime_from_password(pw_bytes) ==
    next_prime_condition(PRIME_SEED_BASE + (SumSeq(pw_bytes) % PRIME_SEED_MOD))

matrix_minor(mat, i, j) ==
    LET rows == [r \in 1..(Len(mat) - 1) |-> IF r < i THEN mat[r] ELSE mat[r + 1]]
    IN  [r \in 1..(Len(mat) - 1) |->
            [c \in 1..(Len(mat) - 1) |-> IF c < j THEN rows[r][c] ELSE rows[r][c + 1]]]

RECURSIVE det_mod(_, _)
RECURSIVE DetExpand(_, _, _)
DetExpand(mat, m, j) ==
    IF j = 0 THEN 0
    ELSE LET sign == IF (j - 1) % 2 = 1 THEN -1 ELSE 1
         IN  (DetExpand(mat, m, j - 1)
                + sign * mat[1][j] * det_mod(matrix_minor(mat, 1, j), m)) % m

det_mod(mat, m) ==
    IF Len(mat) = 1 THEN mat[1][1] % m
    ELSE IF Len(mat) = 2
         THEN (mat[1][1] * mat[2][2] - mat[1][2] * mat[2][1]) % m
         ELSE DetExpand(mat, m, Len(mat)) % m

mat_vec_mul(M, v, m) ==
    [i \in 1..Len(M) |-> SumSeq([j \in 1..Len(M) |-> M[i][j] * v[j]]) % m]

sbox(x, m) == (x * x * x) % m

\* a padding that adds nothing to data that already fills its blocks
pkcs7_pad_unaligned(data, block_size) ==
    LET pad == (block_size - (Len(data) % block_size)) % block_size
    IN  data \o [k \in 1..pad |-> pad]

pkcs7_pad(data, block_size) ==
    LET pad0 == block_size - (Len(data) % block_size)
        pad  == IF pad0 = 0 THEN block_size ELSE pad0
    IN  data \o [k \in 1..pad |-> pad]

(***************************************************************************)
(* game_core.py: key derivation                                            *)
(***************************************************************************)
RECURSIVE Xor(_, _)
Xor(a, b) ==
    IF a = 0 THEN b
    ELSE IF b = 0 THEN a
    ELSE (((a % 2) + (b % 2)) % 2) + 2 * Xor(a \div 2, b \div 2)

\* byte number i (from 0) of expand_bytes(seed, needed)
ExpandByte(seed, i) ==
    LET b   == seed[(i % Len(seed)) + 1]
        mix == Xor(i * 31, b * 8) % 256
    IN  Xor(b, mix)

expand_bytes(seed, needed) == [k \in 1..needed |-> ExpandByte(seed, k - 1)]

\* M, b and IV as attempt att of derive_params_from_password reads them
AttemptParams(pw_bytes, n, m, att) ==
    LET material == expand_bytes(pw_bytes \o <<att>>, n * n + n + n)
    IN  [M  |-> [r \in 1..n |-> [c \in 1..n |-> material[(r - 1) * n + c] % m]],
         b  |-> [j \in 1..n |-> material[n * n + j] % m],
         IV |-> [j \in 1..n |-> material[n * n + n + j] % m]]

RECURSIVE DeriveFrom(_, _, _, _)
DeriveFrom(pw_bytes, n, m, att) ==
    IF att >= MAX_ATTEMPTS THEN [ok |-> FALSE]
    ELSE LET p == AttemptParams(pw_bytes, n, m, att)
         IN  IF det_mod(p.M, m) % m # 0
             THEN [ok |-> TRUE, m |-> m, M |-> p.M, b |-> p.b, IV |-> p.IV,
                   key_sum |-> SumSeq(pw_bytes) % m, attempt |-> att]
             ELSE DeriveFrom(pw_bytes, n, m, att + 1)

derive_params_from_password(pw_bytes, n) ==
    DeriveFrom(pw_bytes, n, derive_prime_from_password(pw_bytes), 0)

tweak(i, n, m, key_sum) == [j \in 1..n |-> (key_sum + (i + 1) * j) % m]

(***************************************************************************)
(* game_core.py: GameState, initial_state, next_step, validate_step        *)
(***************************************************************************)
\* "Fase desconocida": a phase string validate_step does not know
UnknownPhase == "X"
Phases == {"TPW", "TMSG", "A", "B", "C", "D"}

blocks_of(padded, n) ==
    [k \in 1..(Len(padded) \div n) |-> SubSeq(padded, (k - 1) * n + 1, k * n)]

\* requires Len(password) = Len(message) = 4 (initial_state raises otherwise)
initial_state(password, message, n) ==
    LET d == derive_params_from_password(password, n)
    IN  [password |-> password, message |-> message, n |-> n,
         m |-> d.m, M |-> d.M, b |-> d.b, IV |-> d.IV, key_sum |-> d.key_sum,
         ascii_pw_done |-> FALSE, ascii_msg_done |-> FALSE,
         current_block |-> 0, current_phase |-> "TPW",
         prev_vec |-> d.IV, u |-> None, uprime |-> None, w |-> None,
         c_blocks |-> <<>>, errors |-> 0, finished |-> FALSE,
         v_blocks |-> blocks_of(pkcs7_pad(message, n), n),
         expected_pwd_ascii |-> password, expected_msg_ascii |-> message]

\* the phase next_step announces (StepSpec.phase)
next_step_phase(st) ==
    IF ~st.ascii_pw_done THEN "TPW"
    ELSE IF ~st.ascii_msg_done THEN "TMSG"
    ELSE IF st.finished THEN "DONE"
    ELSE IF st.current_phase \in {"A", "B", "C", "D"} THEN st.current_phase
    ELSE "A"

\* next_step writes current_phase = "A" when it is not one of A..D
next_step_state(st) ==
    IF st.ascii_pw_done /\ st.ascii_msg_done /\ ~st.finished
       /\ st.current_phase \notin {"A", "B", "C", "D"}
    THEN [st EXCEPT !.current_phase = "A"]
    ELSE st

\* a failure that would also send the state back to phase A
FailAdvance(st) ==
    [st |-> [st EXCEPT !.errors = @ + 1, !.current_phase = "A"], ok |-> FALSE]

\* errors += 1; return False
Fail(st) == [st |-> [st EXCEPT !.errors = @ + 1], ok |-> FALSE]

\* the vector validate_step compares against for this phase, None when the
\* phase's gate fails or the computation raises (IndexError past the last block)
Expected(st, phase) ==
    LET i   == st.current_block
        t_i == tweak(i, st.n, st.m, st.key_sum)
    IN  CASE phase = "TPW"  -> st.expected_pwd_ascii
          [] phase = "TMSG" -> st.expected_msg_ascii
          [] phase = "A" ->
                IF i >= Len(st.v_blocks) THEN None
                ELSE [j \in 1..st.n |->
                        (st.v_blocks[i + 1][j] + st.prev_vec[j] + t_i[j]) % st.m]
          [] phase = "B" ->
                IF st.u = None THEN None
                ELSE [j \in 1..Len(st.u) |-> sbox(st.u[j], st.m)]
          [] phase = "C" ->
                IF st.uprime = None THEN None
                ELSE mat_vec_mul(st.M, st.uprime, st.m)
          [] phase = "D" ->
                IF st.w = None THEN None
                ELSE [j \in 1..st.n |-> (st.w[j] + st.b[j] + t_i[j]) % st.m]
          [] OTHER -> None

\* a block completion that forgets to chain: prev_vec keeps its value
AcceptDKeepPrev(st, vector) ==
    [st EXCEPT !.c_blocks = Append(@, vector),
               !.u = None, !.uprime = None, !.w = None,
               !.current_phase = "A",
               !.current_block = @ + 1,
               !.finished = IF st.current_block + 1 >= Len(st.v_blocks)
                            THEN TRUE ELSE @]

\* lines 258-264: phase D accepted, the block is complete
AcceptD(st, vector) ==
    [st EXCEPT !.c_blocks = Append(@, vector),
               !.prev_vec = vector,
               !.u = None, !.uprime = None, !.w = None,
               !.current_phase = "A",
               !.current_block = @ + 1,
               !.finished = IF st.current_block + 1 >= Len(st.v_blocks)
                            THEN TRUE ELSE @]

validate_step(st, phase, vector) ==
    LET comp == Expected(st, phase)
    IN  CASE phase = "TPW" ->
                IF vector = comp
                THEN [st |-> [st EXCEPT !.ascii_pw_done = TRUE], ok |-> TRUE]
                ELSE Fail(st)
          [] phase = "TMSG" ->
                IF vector = comp
                THEN [st |-> [st EXCEPT !.ascii_msg_done = TRUE,
                                         !.current_phase = "A"], ok |-> TRUE]
                ELSE Fail(st)
          [] phase = "A" ->
                IF comp # None /\ vector = comp
                THEN [st |-> [st EXCEPT !.u = vector, !.current_phase = "B"],
                      ok |-> TRUE]
                ELSE Fail(st)
          [] phase = "B" ->
                IF comp # None /\ vector = comp
                THEN [st |-> [st EXCEPT !.uprime = vector, !.current_phase = "C"],
                      ok |-> TRUE]
                ELSE Fail(st)
          [] phase = "C" ->
                IF comp # None /\ vector = comp
                THEN [st |-> [st EXCEPT !.w = vector, !.current_phase = "D"],
                      ok |-> TRUE]
                ELSE Fail(st)
          [] phase = "D" ->
                IF comp # None /\ vector = comp
                THEN [st |-> AcceptD(st, vector), ok |-> TRUE]
                ELSE Fail(st)
          [] OTHER -> [st |-> st, ok |-> FALSE]

(***************************************************************************)
(* hascill.py: the cipher and its inverse.  is_prime, next_prime_condition, *)
(* det_mod, matrix_minor, mat_vec_mul, sbox, pkcs7_pad, expand_bytes and    *)
(* derive_prime_from_password are the same text as in game_core.py.         *)
(* A function that raises returns Raised.                                   *)
(***************************************************************************)
Raised == [ok |-> FALSE]

\* (g, x, y) with a*x + b*y = g
RECURSIVE egcd(_, _)
egcd(a, b) ==
    IF b = 0 THEN <<a, 1, 0>>
    ELSE LET r == egcd(b, a % b)
         IN  <<r[1], r[3], r[2] - (a \div b) * r[3]>>

inv_int(a, m) ==
    LET r == egcd(a % m, m)
    IN  IF r[1] # 1 THEN Raised ELSE [ok |-> TRUE, v |-> r[2] % m]

\* the built-in pow(y, e, m)
RECURSIVE pow_mod(_, _, _)
pow_mod(y, e, m) ==
    IF e = 0 THEN 1 % m
    ELSE LET h  == pow_mod(y, e \div 2, m)
             sq == (h * h) % m
         IN  IF e % 2 = 1 THEN (sq * y) % m ELSE sq

adjugate_mod(mat, m) ==
    LET n == Len(mat)
        cof == [i \in 1..n |-> [j \in 1..n |->
                    LET sign == IF (i + j) % 2 = 1 THEN -1 ELSE 1
                    IN  (sign * det_mod(matrix_minor(mat, i, j), m)) % m]]
    IN  [i \in 1..n |-> [j \in 1..n |-> cof[j][i] % m]]

mat_inverse_mod(M, m) ==
    LET d == det_mod(M, m)
    IN  IF d % m = 0 THEN Raised
        ELSE LET inv_d == inv_int(d, m)
                 adj   == adjugate_mod(M, m)
             IN  IF ~inv_d.ok THEN Raised
                 ELSE [ok |-> TRUE,
                       v |-> [i \in 1..Len(M) |-> [j \in 1..Len(M) |->
                                (inv_d.v * adj[i][j]) % m]]]

\* raises when 3 has no inverse mod m - 1
sbox_inv(y, m) ==
    LET e == inv_int(3, m - 1)
    IN  IF e.ok THEN [ok |-> TRUE, v |-> pow_mod(y, e.v, m)] ELSE Raised

\* an unpad that strips one byte whatever the pad byte says
pkcs7_unpad_one(data) ==
    IF data = <<>> THEN Raised
    ELSE [ok |-> TRUE, v |-> SubSeq(data, 1, Len(data) - 1)]

pkcs7_unpad(data) ==
    IF data = <<>> THEN Raised
    ELSE LET pad == data[Len(data)]
         IN  IF pad <= 0 \/ pad > Len(data) THEN Raised
             ELSE IF \E i \in (Len(data) - pad + 1)..Len(data) : data[i] # pad
             THEN Raised
             ELSE [ok |-> TRUE, v |-> SubSeq(data, 1, Len(data) - pad)]

\* hascill.derive_params: M, b, IV of the first attempt whose M is invertible
RECURSIVE derive_params(_, _, _, _)
derive_params(pw_bytes, n, m, attempt) ==
    IF attempt >= MAX_ATTEMPTS THEN Raised
    ELSE LET p == AttemptParams(pw_bytes, n, m, attempt)
         IN  IF det_mod(p.M, m) % m # 0
             THEN [ok |-> TRUE, M |-> p.M, b |-> p.b, IV |-> p.IV]
             ELSE derive_params(pw_bytes, n, m, attempt + 1)

derive_all_from_password(password, n) ==
    LET m == derive_prime_from_password(password)
        d == derive_params(password, n, m, 0)
    IN  IF ~d.ok THEN Raised
        ELSE [ok |-> TRUE, m |-> m, key_sum |-> SumSeq(password) % m,
              M |-> d.M, b |-> d.b, IV |-> d.IV]

\* bytes(v).decode("ascii"), with errors="ignore" when that fails; bytes(v)
\* raises on a value outside 0..255
list_to_ascii(v) ==
    IF \E i \in 1..Len(v) : v[i] < 0 \/ v[i] > 255 THEN Raised
    ELSE [ok |-> TRUE, v |-> SelectSeq(v, LAMBDA x : x < 128)]

\* an encryption that does not chain: every block starts from the first prev
EncChainUnchained(d, n, v_blocks, i, prev) ==
    [k \in 1..Len(v_blocks) |->
        LET t_i == tweak(k - 1, n, d.m, d.key_sum)
            u   == [j \in 1..n |-> (v_blocks[k][j] + prev[j] + t_i[j]) % d.m]
            up  == [j \in 1..n |-> sbox(u[j], d.m)]
            w   == mat_vec_mul(d.M, up, d.m)
        IN  [prev |-> prev,
             c |-> [j \in 1..n |-> (w[j] + d.b[j] + t_i[j]) % d.m]]]

\* the loop of encrypt_verbose from block i on: the prev and c of each block
RECURSIVE EncChain(_, _, _, _, _)
EncChain(d, n, v_blocks, i, prev) ==
    IF i > Len(v_blocks) THEN <<>>
    ELSE LET t_i == tweak(i - 1, n, d.m, d.key_sum)
             u   == [j \in 1..n |-> (v_blocks[i][j] + prev[j] + t_i[j]) % d.m]
             up  == [j \in 1..n |-> sbox(u[j], d.m)]
             w   == mat_vec_mul(d.M, up, d.m)
             c   == [j \in 1..n |-> (w[j] + d.b[j] + t_i[j]) % d.m]
         IN  <<[prev |-> prev, c |-> c]>> \o EncChain(d, n, v_blocks, i + 1, c)

encrypt_verbose(password, plaintext, n) ==
    LET d == derive_all_from_password(password, n)
    IN  IF ~d.ok THEN Raised
        ELSE LET ch == EncChain(d, n, blocks_of(pkcs7_pad(plaintext, n), n), 1, d.IV)
             IN  [ok |-> TRUE, IV |-> d.IV,
                  c |-> [i \in 1..Len(ch) |-> ch[i].c],
                  prev |-> [i \in 1..Len(ch) |-> ch[i].prev]]

\* the loop of decrypt_verbose from block i on: the prev and v of each block
RECURSIVE DecChain(_, _, _, _, _, _)
DecChain(d, n, Minv, cb, i, prev) ==
    IF i > Len(cb) THEN <<>>
    ELSE LET t_i == tweak(i - 1, n, d.m, d.key_sum)
             w   == [j \in 1..n |-> (cb[i][j] - d.b[j] - t_i[j]) % d.m]
             up  == mat_vec_mul(Minv, w, d.m)
             u   == [j \in 1..n |-> sbox_inv(up[j], d.m).v]
             v   == [j \in 1..n |-> (u[j] - prev[j] - t_i[j]) % d.m]
         IN  <<[prev |-> prev, v |-> v]>> \o DecChain(d, n, Minv, cb, i + 1, cb[i])

RECURSIVE Concat(_)
Concat(ss) == IF ss = <<>> THEN <<>> ELSE Head(ss) \o Concat(Tail(ss))

decrypt_verbose(password, ciphertext_blocks, n) ==
    LET d == derive_all_from_password(password, n)
    IN  IF ~d.ok THEN Raised
        ELSE LET Minv == mat_inverse_mod(d.M, d.m)
             IN  IF ~Minv.ok \/ ~inv_int(3, d.m - 1).ok THEN Raised
                 ELSE LET ch == DecChain(d, n, Minv.v, ciphertext_blocks, 1, d.IV)
                          un == pkcs7_unpad(Concat([i \in 1..Len(ch) |-> ch[i].v]))
                      IN  IF ~un.ok THEN Raised
                          ELSE LET text == list_to_ascii(un.v)
                               IN  [ok |-> TRUE,
                                    text |-> IF text.ok THEN text.v ELSE <<>>,
                                    IV |-> d.IV,
                                    prev |-> [i \in 1..Len(ch) |-> ch[i].prev]]

(***************************************************************************)
(* hillplus_async_server.py: server state                                  *)
(***************************************************************************)
\* the challenges a run may use: "PAZ9"/"Hils" and the rekey values
PAZ9 == <<80, 65, 90, 57>>
Hils == <<72, 105, 108, 115>>
ABCD == <<65, 66, 67, 68>>
Passwords == {PAZ9, ABCD}
Messages == {Hils}

TeamIds == 1..NTeams
\* the keys the teams map may get: the teams clients join, and one id past
\* MAX_TEAMS that only a console command can name
TeamSlots == TeamIds \cup {MAX_TEAMS + 1}
Clients == 1..MaxClients
Admin == 0
Tasks == Clients \cup {Admin}
NoGame == [nogame |-> TRUE]
NoMsg == [phase |-> "none", vec |-> None]
\* {"type": "task", "task": "ready"} as a client holds it
ReadyTask == [phase |-> "ready", vec |-> None]

\* JSON values a message field may hold: an integer, a string (its character
\* codes), a number with one decimal (in tenths), a boolean, null
JInt(n)   == [tag |-> "int", n |-> n, chars |-> <<>>]
JStr(c)   == [tag |-> "str", n |-> 0, chars |-> c]
JFloat(d) == [tag |-> "float", n |-> d, chars |-> <<>>]
JBool(b)  == [tag |-> "bool", n |-> IF b THEN 1 ELSE 0, chars |-> <<>>]
JNull     == [tag |-> "null", n |-> 0, chars |-> <<>>]
\* a JSON array of such values
JList(items) == [tag |-> "list", n |-> 0, chars |-> <<>>, items |-> items]
\* the array of the integers of s
JInts(s) == JList([j \in 1..Len(s) |-> JInt(s[j])])

RECURSIVE DecValue(_)
DecValue(c) ==
    IF c = <<>> THEN 0
    ELSE DecValue(SubSeq(c, 1, Len(c) - 1)) * 10 + (c[Len(c)] - 48)

\* Python's int(x) on a JSON value: an integer is itself, a boolean is 0 or 1,
\* a float is truncated towards zero, a string of decimal digits is parsed,
\* anything else raises
py_int(v) ==
    CASE v.tag = "int"   -> [ok |-> TRUE, v |-> v.n]
      [] v.tag = "bool"  -> [ok |-> TRUE, v |-> v.n]
      [] v.tag = "float" ->
            [ok |-> TRUE,
             v |-> IF v.n >= 0 THEN v.n \div 10 ELSE -((-v.n) \div 10)]
      [] v.tag = "str"   ->
            IF v.chars # <<>> /\ \A i \in 1..Len(v.chars) : v.chars[i] \in 48..57
            THEN [ok |-> TRUE, v |-> DecValue(v.chars)]
            ELSE [ok |-> FALSE, v |-> 0]
      [] OTHER -> [ok |-> FALSE, v |-> 0]

\* no first message read yet
NoJoin == [type |-> "none", team |-> JNull]
JoinMsg(team) == [type |-> "join", team |-> team]

\* the team values of the first messages a run may see: 0 .. NTeams and
\* MAX_TEAMS + 1 as integers, "2" and "x", 1.5, true, and no team at all
TeamValues ==
    {JInt(n) : n \in 0..NTeams} \cup
    {JInt(MAX_TEAMS + 1), JStr(<<50>>), JStr(<<120>>), JFloat(15), JBool(TRUE),
     JNull}
FirstMsgs == {JoinMsg(v) : v \in TeamValues} \cup {[type |-> "ready", team |-> JNull]}

\* lines 175-183: the team the first message joins, 0 when handle_conn refuses it
AcceptedTeam(msg) ==
    LET c == py_int(msg.team)
    IN  IF msg.type = "join" /\ c.ok /\ 1 <= c.v /\ c.v <= MAX_TEAMS
        THEN c.v ELSE 0

VARIABLES
    \* HillServer fields
    password, message, rotate,
    teams, conns, ready, turn_order, game,
    next_client_id, start_flag, game_over, paused, winner_team,
    \* asyncio.Lock: held flag and FIFO of waiting tasks
    locked, lockq,
    \* one task per accepted connection (handle_conn) and the admin console:
    \* position, team and client id of the connection, socket, message in hand
    pc, tteam, tcid, sock, marg,
    \* ClientConn.last_steps: how many of its timestamps lie inside the
    \* rate-limit window
    last_steps,
    \* history: how many of those timestamps were stamped by a step_answer
    sa_stamps,
    \* what each client has been sent: scoreboard and game_over counts of the
    \* current match, and the last request it holds: a step pushed to it with
    \* you_turn = true that it has not answered yet, or a task "ready"
    sb, go, inbox,
    \* history: what each client has received of the current match: nothing,
    \* its joined message, the start message, or a step without a start
    seen,
    \* history: teams in the order their final D was validated in this match,
    \* number of admin commands issued, number of deviating step_answers
    finish_order, adminOps, devs,
    \* a GameState driven directly through validate_step, and the last call
    vst, vlast,
    \* handle_conn's local msg: the first message of each connection
    jmsg,
    \* a call of one of the pure functions: its name and arguments, its result
    pcall, pret

chal  == <<password, message, rotate>>
tvars == <<teams, conns, ready, turn_order, game>>
flags == <<start_flag, game_over, paused, winner_team>>
lockv == <<locked, lockq>>
taskv == <<pc, tteam, tcid, sock, marg>>
obs   == <<sb, go, inbox, seen>>
hist  == <<finish_order, adminOps, devs>>
vv    == <<vst, vlast>>
pure  == <<pcall, pret>>
aside == <<vv, jmsg, pure>>
quiet == <<aside, last_steps, sa_stamps>>
srv   == <<chal, tvars, next_client_id, flags, lockv, taskv, obs, hist>>
vars  == <<srv, last_steps, sa_stamps, aside>>

NoPure == [fn |-> "none"]
NoCall == [phase |-> "none", vector |-> None, ok |-> FALSE, pre |-> NoGame]

\* HillServer.__init__ with no connection accepted yet
ServerInit ==
    /\ password = PAZ9 /\ message = Hils
    /\ rotate = "phase"
    /\ teams = {}
    /\ conns = [t \in TeamSlots |-> <<>>]
    /\ ready = [t \in TeamSlots |-> {}]
    /\ turn_order = [t \in TeamSlots |-> <<>>]
    /\ game = [t \in TeamSlots |-> NoGame]
    /\ next_client_id = 0
    /\ start_flag = FALSE /\ game_over = FALSE /\ paused = FALSE
    /\ winner_team = 0
    /\ locked = FALSE /\ lockq = <<>>
    /\ pc = [k \in Tasks |-> IF k = Admin THEN "idle" ELSE "free"]
    /\ tteam = [k \in Clients |-> 0]
    /\ tcid = [k \in Clients |-> 0]
    /\ sock = [k \in Clients |-> "none"]
    /\ marg = [k \in Tasks |-> NoMsg]
    /\ last_steps = [k \in Clients |-> 0]
    /\ sa_stamps = [k \in Clients |-> 0]
    /\ sb = [k \in Clients |-> 0]
    /\ go = [k \in Clients |-> 0]
    /\ inbox = [k \in Clients |-> NoMsg]
    /\ seen = [k \in Clients |-> "none"]
    /\ finish_order = <<>>
    /\ adminOps = 0
    /\ devs = 0
    /\ jmsg = [k \in Clients |-> NoJoin]
    /\ pcall = NoPure /\ pret = None

Init == ServerInit /\ vst = NoGame /\ vlast = NoCall

(***************************************************************************)
(* helpers over the server state                                           *)
(***************************************************************************)
\* TeamSrvState.current_player: head of turn_order, 0 for None
current_player_last(to) == IF to = <<>> THEN 0 ELSE to[Len(to)]
current_player(to) == IF to = <<>> THEN 0 ELSE Head(to)

\* deque.rotate(-1)
rotate_left(to) == IF to = <<>> THEN to ELSE Append(Tail(to), Head(to))

\* the tasks whose connection is registered under one of these client ids and
\* whose socket still takes writes
Receivers(cids) == {k \in Clients : tcid[k] # 0 /\ tcid[k] \in cids /\ sock[k] = "open"}

\* broadcast_all: every connection of every team of the teams map
AllCids(cn, tms) == UNION {Range(cn[t]) : t \in tms}

LockFree == ~locked /\ lockq = <<>>

CanDisturb == devs + adminOps < MaxDisturb

\* maybe_start_global's gate
active_teams(cn, tms) == {t \in tms : Len(cn[t]) > 0}
all_ready(cn, rd, tms) ==
    \A t \in active_teams(cn, tms) : Cardinality(rd[t]) = Len(cn[t])
StartGate(cn, rd, tms) == active_teams(cn, tms) # {} /\ all_ready(cn, rd, tms)

\* push_next_task(ts): the step message as the client whose turn it is sees it
PushInbox(ib, g, to, cn, frozen) ==
    IF frozen \/ g = NoGame THEN ib
    ELSE LET cur == current_player(to)
             ph  == next_step_phase(g)
         IN  [k \in Clients |->
                IF k \in Receivers(Range(cn)) /\ tcid[k] = cur
                THEN [phase |-> ph, vec |-> Expected(g, ph)]
                ELSE ib[k]]

\* push_next_task's effect on the GameState (through next_step)
PushGame(g, frozen) == IF frozen \/ g = NoGame THEN g ELSE next_step_state(g)

\* push_next_task(ts) sends the step to every connection of the team
\* (lines 316-318): one that has had the start message now has a step of the
\* match, one that has not has a step without it
PushSeen(sn, g, cn, frozen) ==
    IF frozen \/ g = NoGame THEN sn
    ELSE [k \in Clients |->
            IF k \in Receivers(Range(cn))
            THEN (IF sn[k] \in {"start", "step"} THEN "step"
                  ELSE "step_unstarted")
            ELSE sn[k]]

(***************************************************************************)
(* asyncio.Lock.  A task that finds the lock free (not held, nobody        *)
(* waiting) runs its critical section without suspending; otherwise it     *)
(* joins the FIFO and is resumed by Grant.  Only maybe_start_global holds  *)
(* the lock across an await.  get_team is a critical section of its own,   *)
(* so a handler that calls get_team and then takes the lock again queues   *)
(* twice when there are waiters.                                           *)
(***************************************************************************)
Enqueue(k, wpc) ==
    /\ lockq' = Append(lockq, k)
    /\ pc' = [pc EXCEPT ![k] = wpc]
    /\ UNCHANGED locked

(***************************************************************************)
(* handle_conn: join                                                       *)
(***************************************************************************)
\* lines 186-204: allocate the client id and register the connection
Register(k, t, q) ==
    LET cid == next_client_id + 1
    IN  /\ next_client_id' = cid
        /\ teams' = teams \cup {t}
        /\ conns' = [conns EXCEPT ![t] = Append(@, cid)]
        /\ ready' = [ready EXCEPT ![t] = @ \ {cid}]
        /\ turn_order' = [turn_order EXCEPT ![t] =
                IF ~start_flag /\ cid \notin Range(@) THEN Append(@, cid) ELSE @]
        /\ tcid' = [tcid EXCEPT ![k] = cid]
        /\ tteam' = [tteam EXCEPT ![k] = t]
        /\ sock' = [sock EXCEPT ![k] = "open"]
        /\ pc' = [pc EXCEPT ![k] = "idle"]
        /\ inbox' = [inbox EXCEPT ![k] = ReadyTask]
        /\ seen' = [seen EXCEPT ![k] = "joined"]
        /\ lockq' = q
        /\ UNCHANGED <<locked, game, marg, chal, flags, sb, go, hist>>

\* lines 185-204 for a first message that joins team t
JoinBody(k, t) ==
    /\ pc[k] = "free"
    /\ k = 1 \/ pc[k - 1] # "free"
    /\ IF LockFree
       THEN Register(k, t, lockq)
       ELSE /\ Enqueue(k, "join_w1")
            /\ tteam' = [tteam EXCEPT ![k] = t]
            /\ sock' = [sock EXCEPT ![k] = "open"]
            /\ UNCHANGED <<tvars, next_client_id, tcid, marg, chal, flags, obs, hist>>

\* lines 175-183: the first message is not a join with a team in 1..MAX_TEAMS;
\* the connection gets an error and is closed
BadJoinBody(k) ==
    /\ pc[k] = "free"
    /\ k = 1 \/ pc[k - 1] # "free"
    /\ pc' = [pc EXCEPT ![k] = "closed"]
    /\ sock' = [sock EXCEPT ![k] = "closed"]
    /\ UNCHANGED <<tvars, next_client_id, tteam, tcid, marg, chal, flags, lockv,
                   obs, hist>>

\* lines 174-204: a connection is accepted and its first message read
Handshake(k, msg) ==
    /\ jmsg' = [jmsg EXCEPT ![k] = msg]
    /\ IF AcceptedTeam(msg) # 0
       THEN JoinBody(k, AcceptedTeam(msg))
       ELSE BadJoinBody(k)
    /\ UNCHANGED <<vv, pure, last_steps, sa_stamps>>

\* a client that joins team t the way hillplus_async_client does
Join(k, t) == Handshake(k, JoinMsg(JInt(t)))

\* a client whose first message is not a join
BadJoin(k) == Handshake(k, [type |-> "ready", team |-> JNull])

(***************************************************************************)
(* on_disconnect                                                           *)
(***************************************************************************)
DiscBody(k, q) ==
    LET t == tteam[k]
        cid == tcid[k]
    IN  /\ conns' = [conns EXCEPT ![t] = RemoveFirst(@, cid)]
        /\ ready' = [ready EXCEPT ![t] = @ \ {cid}]
        /\ turn_order' = [turn_order EXCEPT ![t] = RemoveFirst(@, cid)]
        /\ sock' = [sock EXCEPT ![k] = "closed"]
        /\ pc' = [pc EXCEPT ![k] = "closed"]
        /\ marg' = [marg EXCEPT ![k] = NoMsg]
        /\ inbox' = [inbox EXCEPT ![k] = NoMsg]
        /\ lockq' = q
        /\ UNCHANGED <<locked, teams, game, next_client_id, tteam, tcid,
                       chal, flags, sb, go, seen>>

\* on_disconnect(team_id, cid) called by the connection's own task
OnDisconnect(k) ==
    IF LockFree
    THEN DiscBody(k, lockq)
    ELSE /\ Enqueue(k, "dc_w1")
         /\ sock' = [sock EXCEPT ![k] = "closed"]
         /\ inbox' = [inbox EXCEPT ![k] = NoMsg]
         /\ UNCHANGED <<tvars, next_client_id, tteam, tcid, marg, chal, flags,
                        sb, go, seen>>

\* recv_json returns None: the client went away, or the server closed the socket
ClientGone(k) ==
    /\ pc[k] = "idle"
    /\ sock[k] \in {"open", "closed"}
    /\ OnDisconnect(k)
    /\ UNCHANGED <<hist, quiet>>

\* the exception handler of handle_conn (lines 239-241): on_disconnect
Raise(k) == OnDisconnect(k)

(***************************************************************************)
(* on_ready, maybe_start_global, _do_start                                 *)
(***************************************************************************)
\* lines 217-226: every message read from a connection that is still in its
\* team's conns stamps last_steps, after the stamps older than the window are
\* dropped.  gap tells whether more than RATE_LIMIT_WINDOW has passed since the
\* connection's previous messages; the count saturates above RATE_LIMIT_MAX,
\* where the handler no longer tells counts apart.
Stamp(k, gap) ==
    IF tcid[k] \in Range(conns[tteam[k]])
    THEN [last_steps EXCEPT ![k] =
            IF gap THEN 1
            ELSE IF @ > RATE_LIMIT_MAX THEN @ ELSE @ + 1]
    ELSE last_steps

\* the step_answers among the stamps of the window, this message included
StampSA(k, gap, is_sa) ==
    IF tcid[k] \in Range(conns[tteam[k]])
    THEN [sa_stamps EXCEPT ![k] =
            LET kept == IF gap THEN 0 ELSE @
            IN  IF is_sa /\ kept <= RATE_LIMIT_MAX THEN kept + 1 ELSE kept]
    ELSE sa_stamps

RateLimited(k, gap) == Stamp(k, gap)[k] > RATE_LIMIT_MAX

\* lines 263-270: mark READY, then the team_status and turn broadcasts
ReadyAdd(k, q) ==
    /\ ready' = [ready EXCEPT ![tteam[k]] = @ \cup {tcid[k]}]
    /\ pc' = [pc EXCEPT ![k] = "rdy_sent"]
    /\ lockq' = q
    /\ UNCHANGED <<locked, teams, conns, turn_order, game, next_client_id,
                   tteam, tcid, sock, marg, chal, flags, sb, go, seen,
                   finish_order, adminOps>>

\* the client has answered the task "ready" it held
Answered(ib, k) == [ib EXCEPT ![k] = IF @ = ReadyTask THEN NoMsg ELSE @]

\* a client sends ready; one that is marked READY already deviates
SendReady(k, gap) ==
    /\ pc[k] = "idle" /\ sock[k] = "open"
    /\ last_steps' = Stamp(k, gap)
    /\ sa_stamps' = StampSA(k, gap, FALSE)
    /\ IF tcid[k] \in ready[tteam[k]]
       THEN CanDisturb /\ devs' = devs + 1
       ELSE devs' = devs
    /\ inbox' = Answered(inbox, k)
    /\ IF LockFree
       THEN ReadyAdd(k, lockq)
       ELSE /\ Enqueue(k, "rdy_w1")
            /\ UNCHANGED <<tvars, next_client_id, tteam, tcid, sock, marg, chal,
                           flags, sb, go, seen, finish_order, adminOps>>
    /\ UNCHANGED aside

\* lines 276-282 with the lock just taken: the gate, and countdown 3 when it opens
GateCheck(k, q) ==
    /\ lockq' = q
    /\ IF ~(start_flag \/ game_over) /\ StartGate(conns, ready, teams)
       THEN /\ locked' = TRUE
            /\ pc' = [pc EXCEPT ![k] = "cd3"]
       ELSE /\ locked' = FALSE
            /\ pc' = [pc EXCEPT ![k] = "idle"]
    /\ UNCHANGED <<tvars, next_client_id, tteam, tcid, sock, marg, chal, flags,
                   obs, hist>>

MaybeStartGlobal(k) ==
    /\ pc[k] = "rdy_sent"
    /\ IF LockFree
       THEN GateCheck(k, lockq)
       ELSE /\ Enqueue(k, "ms_w")
            /\ UNCHANGED <<tvars, next_client_id, tteam, tcid, sock, marg, chal,
                           flags, obs, hist>>
    /\ UNCHANGED quiet

\* lines 289-306: start_flag, a fresh GameState and turn queue for every team
\* with connections, the start broadcast and the first step of each team
DoStartInit ==
    LET frozen == game_over \/ paused
        g0 == initial_state(password, message, N)
        newgame == [t \in TeamSlots |->
                      IF t \in teams
                      THEN (IF Len(conns[t]) = 0 THEN NoGame ELSE g0)
                      ELSE game[t]]
        newto == [t \in TeamSlots |->
                      IF t \in teams /\ Len(conns[t]) > 0 THEN conns[t]
                      ELSE turn_order[t]]
        started == [k \in Clients |->
                      IF k \in Receivers(AllCids(conns, teams)) THEN "start"
                      ELSE seen[k]]
    IN  /\ start_flag' = TRUE
        /\ game' = newgame
        /\ turn_order' = newto
        /\ inbox' = [k \in Clients |->
                        IF tteam[k] \in teams
                        THEN PushInbox(inbox, newgame[tteam[k]], newto[tteam[k]],
                                       conns[tteam[k]], frozen)[k]
                        ELSE inbox[k]]
        /\ sb' = [k \in Clients |-> 0]
        /\ go' = [k \in Clients |-> 0]
        /\ seen' = [k \in Clients |->
                       IF tteam[k] \in teams
                       THEN PushSeen(started, newgame[tteam[k]],
                                     conns[tteam[k]], frozen)[k]
                       ELSE started[k]]
        /\ finish_order' = <<>>
        /\ UNCHANGED <<teams, conns, ready, next_client_id, game_over, paused,
                       winner_team, chal>>

\* the countdown of a READY-gated start: one broadcast and one sleep per tick,
\* the lock held throughout, then the start itself
CountdownTick(k) ==
    /\ pc[k] \in {"cd3", "cd2"}
    /\ pc' = [pc EXCEPT ![k] = IF pc[k] = "cd3" THEN "cd2" ELSE "cd1"]
    /\ UNCHANGED <<tvars, next_client_id, tteam, tcid, sock, marg, chal, flags,
                   lockv, obs, hist, quiet>>

\* The three sleeps of one second (line 288) exceed RATE_LIMIT_WINDOW, so the
\* stamps taken before the countdown have left every window by the start.
GatedStart(k) ==
    /\ pc[k] = "cd1"
    /\ DoStartInit
    /\ locked' = FALSE
    /\ pc' = [pc EXCEPT ![k] = "idle"]
    /\ last_steps' = [c \in Clients |-> 0]
    /\ sa_stamps' = [c \in Clients |-> 0]
    /\ UNCHANGED <<lockq, tteam, tcid, sock, marg, adminOps, devs, aside>>

(***************************************************************************)
(* on_step_answer                                                          *)
(***************************************************************************)
\* vectors a client may send for a phase: the one the validator expects now,
\* one of the right length that is wrong, and one of the wrong length
WrongVec(len) == [j \in 1..len |-> -1]
ShortVec == <<0>>
\* a list of the JSON value true, and a message with no "vector" at all
BoolVec(len) == JList([j \in 1..len |-> JBool(TRUE)])
NoVector == JNull
exp_len(g, phase) == IF phase \in {"TPW", "TMSG"} THEN ASCII_LEN ELSE g.n
Vectors(g, phase) ==
    IF g = NoGame THEN {JInts(ShortVec)}
    ELSE {JInts(WrongVec(exp_len(g, phase))), JInts(ShortVec),
          BoolVec(exp_len(g, phase)), NoVector}
         \cup (IF Expected(g, phase) = None THEN {}
              ELSE {JInts(Expected(g, phase))})

\* line 335: isinstance(vec, list) and len(vec) == exp_len and
\* all(isinstance(x, int) for x in vec); a Python bool is an instance of int
valid_vector(vec, len) ==
    /\ vec.tag = "list"
    /\ Len(vec.items) = len
    /\ \A j \in 1..Len(vec.items) : vec.items[j].tag \in {"int", "bool"}

\* the list as validate_step computes with it: True is 1 and False is 0
py_values(vec) == [j \in 1..Len(vec.items) |-> vec.items[j].n]

\* lines 321-368 up to the first await after the turn check, with the team
\* state in hand
StepBody(k, msg, q) ==
    LET t == tteam[k]
        g == game[t]
        frozen == game_over \/ paused
    IN  /\ lockq' = q
        /\ UNCHANGED <<locked, teams, conns, ready, turn_order, next_client_id,
                       tteam, tcid, sock, chal, flags, sb, go, seen, adminOps>>
        /\ IF g = NoGame
           THEN /\ pc' = [pc EXCEPT ![k] = "r_none"]
                /\ marg' = [marg EXCEPT ![k] = NoMsg]
                /\ UNCHANGED <<game, finish_order>>
           ELSE IF tcid[k] # current_player(turn_order[t])
           THEN /\ pc' = [pc EXCEPT ![k] =
                        IF tcid[k] \in Range(conns[t]) THEN "r_turn" ELSE "r_none"]
                /\ marg' = [marg EXCEPT ![k] = NoMsg]
                /\ UNCHANGED <<game, finish_order>>
           ELSE IF ~valid_vector(msg.vec, exp_len(g, msg.phase))
           THEN /\ game' = [game EXCEPT ![t].errors = @ + 1]
                /\ pc' = [pc EXCEPT ![k] = "e_arity"]
                /\ marg' = [marg EXCEPT ![k] = NoMsg]
                /\ UNCHANGED finish_order
           ELSE LET r == validate_step(g, msg.phase, py_values(msg.vec))
                IN  IF r.ok
                    THEN /\ game' = [game EXCEPT ![t] = r.st]
                         /\ pc' = [pc EXCEPT ![k] = "sa_ok"]
                         /\ marg' = [marg EXCEPT ![k] = msg]
                         /\ finish_order' =
                                IF r.st.finished /\ ~g.finished
                                THEN Append(finish_order, t) ELSE finish_order
                    ELSE /\ game' = [game EXCEPT ![t] =
                                        [r.st EXCEPT !.errors = @ + 1]]
                         /\ pc' = [pc EXCEPT ![k] = "e_wrong"]
                         /\ marg' = [marg EXCEPT ![k] = msg]
                         /\ UNCHANGED finish_order

\* a step_answer is read by the connection's task (lines 230-234): the frozen
\* check, then on_step_answer up to its first await
StepAnswer(k, phase, vec) ==
    LET msg == [phase |-> phase, vec |-> vec]
    IN  IF game_over \/ paused
        THEN IF tcid[k] \in Range(conns[tteam[k]])
             THEN /\ pc' = [pc EXCEPT ![k] = "r_frozen"]
                  /\ UNCHANGED <<tvars, next_client_id, tteam, tcid, sock, marg,
                                 chal, flags, lockv, sb, go, seen,
                                 finish_order, adminOps>>
             ELSE /\ Raise(k)
                  /\ UNCHANGED <<finish_order, adminOps>>
        ELSE IF LockFree
        THEN StepBody(k, msg, lockq)
        ELSE /\ Enqueue(k, "sa_w")
             /\ marg' = [marg EXCEPT ![k] = msg]
             /\ UNCHANGED <<tvars, next_client_id, tteam, tcid, sock, chal,
                            flags, sb, go, seen, finish_order, adminOps>>

\* lines 222-224: the step_answer is over the limit; an error, nothing else
RateLimit(k) ==
    /\ pc' = [pc EXCEPT ![k] = "r_rate"]
    /\ UNCHANGED <<tvars, next_client_id, tteam, tcid, sock, marg, chal, flags,
                   lockv, sb, go, seen, finish_order, adminOps>>

\* the answer the pending step asks for, sent by the player whose turn it is
RightAnswer(k, phase, vec) ==
    LET g == game[tteam[k]]
    IN  /\ g # NoGame
        /\ tcid[k] = current_player(turn_order[tteam[k]])
        /\ phase = next_step_phase(g)
        /\ Expected(g, phase) # None
        /\ vec = JInts(Expected(g, phase))

\* a client sends a step_answer with a phase and vector of its choosing
ClientStepAnswer(k, gap) ==
    /\ pc[k] = "idle" /\ sock[k] = "open"
    /\ last_steps' = Stamp(k, gap)
    /\ sa_stamps' = StampSA(k, gap, TRUE)
    /\ \E phase \in Phases \cup {UnknownPhase} :
       \E vec \in Vectors(game[tteam[k]], phase) :
          /\ IF RightAnswer(k, phase, vec)
             THEN devs' = devs
             ELSE CanDisturb /\ devs' = devs + 1
          /\ IF RateLimited(k, gap)
             THEN RateLimit(k)
             ELSE StepAnswer(k, phase, vec)
    /\ inbox' = [inbox EXCEPT ![k] = NoMsg]
    /\ UNCHANGED aside

\* the handler returns to the read loop after an error or hint was sent (or
\* nothing at all)
Loop(k) ==
    /\ pc[k] \in {"r_none", "r_turn", "r_frozen", "r_rate"}
    /\ pc' = [pc EXCEPT ![k] = "idle"]
    /\ UNCHANGED <<tvars, next_client_id, tteam, tcid, sock, marg, chal, flags,
                   lockv, obs, hist, quiet>>

\* after the error reply of a rejected answer: push_next_task (lines 338, 368)
ErrPush(k) ==
    LET t == tteam[k]
        frozen == game_over \/ paused
    IN  /\ pc[k] \in {"e_arity", "e_wrong"}
        /\ game' = [game EXCEPT ![t] = PushGame(@, frozen)]
        /\ inbox' = PushInbox(inbox, game[t], turn_order[t], conns[t], frozen)
        /\ seen' = PushSeen(seen, game[t], conns[t], frozen)
        /\ pc' = [pc EXCEPT ![k] = "idle"]
        /\ marg' = [marg EXCEPT ![k] = NoMsg]
        /\ UNCHANGED <<teams, conns, ready, turn_order, next_client_id, tteam,
                       tcid, sock, chal, flags, lockv, sb, go, hist, quiet>>

\* lines 347-348: the winner is assigned only while it is None (0)
ElectLast(w, t) == t
Elect(w, t) == IF w = 0 THEN t ELSE w

CountUp(f, ks) == [k \in Clients |-> IF k \in ks THEN f[k] + 1 ELSE f[k]]

\* lines 346-363, resumed after the "ok" broadcast of line 345: the finish
\* branch (winner, game_over, scoreboard broadcast) or the rotation, turn
\* broadcast and next step
StepOk(k) ==
    LET t == tteam[k]
        g == game[t]
        frozen == game_over \/ paused
    IN  /\ pc[k] = "sa_ok"
        /\ IF g = NoGame
           THEN /\ Raise(k)
                /\ UNCHANGED hist
           ELSE /\ pc' = [pc EXCEPT ![k] = IF g.finished THEN "sa_go" ELSE "idle"]
                /\ marg' = [marg EXCEPT ![k] = NoMsg]
                /\ UNCHANGED <<teams, conns, ready, next_client_id, tteam, tcid,
                               sock, chal, start_flag, paused, lockv, hist>>
                /\ IF g.finished
                   THEN /\ winner_team' = Elect(winner_team, t)
                        /\ game_over' = TRUE
                        /\ sb' = CountUp(sb, Receivers(AllCids(conns, teams)))
                        /\ UNCHANGED <<turn_order, game, inbox, go, seen>>
                   ELSE LET newto == IF rotate = "phase" \/ marg[k].phase = "D"
                                     THEN rotate_left(turn_order[t])
                                     ELSE turn_order[t]
                        IN  /\ turn_order' = [turn_order EXCEPT ![t] = newto]
                            /\ game' = [game EXCEPT ![t] = PushGame(@, frozen)]
                            /\ inbox' = PushInbox(inbox, g, newto, conns[t], frozen)
                            /\ seen' = PushSeen(seen, g, conns[t], frozen)
                            /\ UNCHANGED <<winner_team, game_over, sb, go>>
        /\ UNCHANGED quiet

\* line 353, resumed after the scoreboard broadcast: game_over to every
\* connection there is now
GameOverCast(k) ==
    /\ pc[k] = "sa_go"
    /\ go' = CountUp(go, Receivers(AllCids(conns, teams)))
    /\ pc' = [pc EXCEPT ![k] = "idle"]
    /\ UNCHANGED <<chal, tvars, next_client_id, flags, lockv, tteam, tcid, sock,
                   marg, sb, inbox, seen, hist, quiet>>

(***************************************************************************)
(* a waiting task gets the lock                                            *)
(***************************************************************************)
\* the second acquisition of a handler that has just left get_team: at once
\* when nobody else waits, behind the other waiters otherwise
Requeue(k, wpc) ==
    /\ lockq' = Append(Tail(lockq), k)
    /\ pc' = [pc EXCEPT ![k] = wpc]
    /\ UNCHANGED locked

Grant(k) ==
    /\ ~locked /\ lockq # <<>> /\ Head(lockq) = k /\ k # Admin
    /\ CASE pc[k] = "join_w1" ->
              IF Tail(lockq) = <<>>
              THEN Register(k, tteam[k], <<>>)
              ELSE /\ Requeue(k, "join_w2")
                   /\ teams' = teams \cup {tteam[k]}
                   /\ UNCHANGED <<conns, ready, turn_order, game, next_client_id,
                                  tteam, tcid, sock, marg, chal, flags, obs, hist>>
         [] pc[k] = "join_w2" -> Register(k, tteam[k], Tail(lockq))
         [] pc[k] = "rdy_w1" ->
              IF Tail(lockq) = <<>>
              THEN ReadyAdd(k, <<>>) /\ UNCHANGED <<inbox, devs>>
              ELSE /\ Requeue(k, "rdy_w2")
                   /\ UNCHANGED <<tvars, next_client_id, tteam, tcid, sock, marg,
                                  chal, flags, obs, hist>>
         [] pc[k] = "rdy_w2" -> ReadyAdd(k, Tail(lockq)) /\ UNCHANGED <<inbox, devs>>
         [] pc[k] = "dc_w1" ->
              IF Tail(lockq) = <<>>
              THEN DiscBody(k, <<>>) /\ UNCHANGED hist
              ELSE /\ Requeue(k, "dc_w2")
                   /\ UNCHANGED <<tvars, next_client_id, tteam, tcid, sock, marg,
                                  chal, flags, obs, hist>>
         [] pc[k] = "dc_w2" -> DiscBody(k, Tail(lockq)) /\ UNCHANGED hist
         [] pc[k] = "ms_w" -> GateCheck(k, Tail(lockq))
         [] pc[k] = "sa_w" -> StepBody(k, marg[k], Tail(lockq)) /\ UNCHANGED <<inbox, devs>>
         [] OTHER -> FALSE
    /\ UNCHANGED quiet

(***************************************************************************)
(* admin console: one command at a time, none of them takes the lock       *)
(* except through get_team                                                 *)
(***************************************************************************)
AdminReady == pc[Admin] = "idle" /\ CanDisturb

\* a reset or rekey that ends a pause belongs to the disturbance the pause began
AdminReadyOrPaused == pc[Admin] = "idle" /\ (CanDisturb \/ paused)

\* t.game = None for every team
KeptGames(g, tms) == g
DroppedGames(g, tms) == [t \in TeamSlots |-> IF t \in tms THEN NoGame ELSE g[t]]

\* t.ready.clear() for every team
KeptReady(rd, tms) == rd
ClearedReady(rd, tms) == [t \in TeamSlots |-> IF t \in tms THEN {} ELSE rd[t]]

\* broadcast_all(info), then per team a team_status and a task "ready" to each
\* connection (lines 444-452, 485-493): what a client holds afterwards
\* the match is dropped: what was received of it no longer counts
MatchEnded(sn) == [k \in Clients |-> IF sn[k] = "none" THEN "none" ELSE "joined"]

AskReady(ib) ==
    [k \in Clients |->
        IF k \in Receivers(AllCids(conns, teams)) THEN ReadyTask ELSE ib[k]]

NoKick == [phase |-> "none", vec |-> None]

\* admin_kick after get_team: close the sockets, and for one client drop it
\* from conns, before the await on wait_closed
KickBody(t, c, q) ==
    /\ lockq' = q
    /\ teams' = teams \cup {t}
    /\ IF c = 0
       THEN IF conns[t] = <<>>
            THEN /\ ready' = [ready EXCEPT ![t] = {}]
                 /\ turn_order' = [turn_order EXCEPT ![t] = <<>>]
                 /\ pc' = [pc EXCEPT ![Admin] = "idle"]
                 /\ marg' = [marg EXCEPT ![Admin] = NoKick]
                 /\ UNCHANGED <<conns, sock>>
            ELSE /\ sock' = [k \in Clients |->
                               IF tteam[k] = t /\ tcid[k] \in Range(conns[t])
                               THEN "closed" ELSE sock[k]]
                 /\ pc' = [pc EXCEPT ![Admin] = "kick_clear"]
                 /\ marg' = [marg EXCEPT ![Admin] = [phase |-> "kick", vec |-> <<t, c>>]]
                 /\ UNCHANGED <<conns, ready, turn_order>>
       ELSE IF c \in Range(conns[t])
            THEN /\ conns' = [conns EXCEPT ![t] = RemoveFirst(@, c)]
                 /\ sock' = [k \in Clients |->
                               IF tteam[k] = t /\ tcid[k] = c
                               THEN "closed" ELSE sock[k]]
                 /\ pc' = [pc EXCEPT ![Admin] = "kick_one"]
                 /\ marg' = [marg EXCEPT ![Admin] = [phase |-> "kick", vec |-> <<t, c>>]]
                 /\ UNCHANGED <<ready, turn_order>>
            ELSE /\ pc' = [pc EXCEPT ![Admin] = "idle"]
                 /\ marg' = [marg EXCEPT ![Admin] = NoKick]
                 /\ UNCHANGED <<conns, ready, turn_order, sock>>
    /\ UNCHANGED <<locked, game, next_client_id, tteam, tcid, chal, flags, obs,
                   finish_order, devs>>

\* kick <team> [client_id]; c = 0 stands for no client id.  A kick of a client
\* the team does not have changes nothing and is left out.
AdminKick(t, c) ==
    /\ AdminReady
    /\ c = 0 \/ c \in Range(conns[t]) \/ t \notin teams
    /\ adminOps' = adminOps + 1
    /\ IF LockFree
       THEN KickBody(t, c, lockq)
       ELSE /\ Enqueue(Admin, "kick_w")
            /\ marg' = [marg EXCEPT ![Admin] = [phase |-> "kick", vec |-> <<t, c>>]]
            /\ UNCHANGED <<tvars, next_client_id, tteam, tcid, sock, chal, flags,
                           obs, finish_order, devs>>
    /\ UNCHANGED quiet

GrantAdmin ==
    /\ ~locked /\ lockq # <<>> /\ Head(lockq) = Admin
    /\ pc[Admin] = "kick_w"
    /\ KickBody(marg[Admin].vec[1], marg[Admin].vec[2], Tail(lockq))
    /\ UNCHANGED <<adminOps, quiet>>

\* admin_kick resumed after wait_closed: the clears of a team kick, or the
\* READY and turn-queue removal of a single kick
KickFinish ==
    LET t == marg[Admin].vec[1]
        c == marg[Admin].vec[2]
    IN  /\ pc[Admin] \in {"kick_clear", "kick_one"}
        /\ IF pc[Admin] = "kick_clear"
           THEN /\ conns' = [conns EXCEPT ![t] = <<>>]
                /\ ready' = [ready EXCEPT ![t] = {}]
                /\ turn_order' = [turn_order EXCEPT ![t] = <<>>]
           ELSE /\ ready' = [ready EXCEPT ![t] = @ \ {c}]
                /\ turn_order' = [turn_order EXCEPT ![t] = RemoveFirst(@, c)]
                /\ UNCHANGED conns
        /\ pc' = [pc EXCEPT ![Admin] = "idle"]
        /\ marg' = [marg EXCEPT ![Admin] = NoKick]
        /\ UNCHANGED <<teams, game, next_client_id, tteam, tcid, sock, chal,
                       flags, lockv, obs, hist, quiet>>

\* start-now up to the first countdown broadcast: flags cleared, every team's
\* turn queue and READY set rebuilt from its connections
StartNow ==
    /\ pc[Admin] = "idle"
    /\ ~(start_flag /\ ~game_over)
    /\ adminOps' = adminOps + 1
    /\ game_over' = FALSE /\ winner_team' = 0 /\ paused' = FALSE
    /\ turn_order' = [t \in TeamSlots |-> IF t \in teams THEN conns[t] ELSE turn_order[t]]
    /\ ready' = [t \in TeamSlots |-> IF t \in teams THEN Range(conns[t]) ELSE ready[t]]
    /\ pc' = [pc EXCEPT ![Admin] = "sn2"]
    /\ UNCHANGED <<teams, conns, game, next_client_id, start_flag, tteam, tcid,
                   sock, marg, chal, lockv, obs, finish_order, devs, quiet>>

\* the console command, one of the disturbances of a run
AdminStartNow == CanDisturb /\ StartNow

AdminCountdownTick ==
    /\ pc[Admin] = "sn2"
    /\ pc' = [pc EXCEPT ![Admin] = "sn1"]
    /\ UNCHANGED <<tvars, next_client_id, tteam, tcid, sock, marg, chal, flags,
                   lockv, obs, hist, quiet>>

ForcedStart ==
    /\ pc[Admin] = "sn1"
    /\ DoStartInit
    /\ pc' = [pc EXCEPT ![Admin] = "idle"]
    /\ UNCHANGED <<lockv, tteam, tcid, sock, marg, adminOps, devs, quiet>>

\* _reset_challenge: back to the lobby, GameStates dropped, READY marks and
\* turn queues kept
ResetChallenge ==
    /\ game_over' = FALSE /\ paused' = FALSE /\ start_flag' = FALSE
    /\ winner_team' = 0
    /\ game' = DroppedGames(game, teams)
    /\ inbox' = AskReady(inbox)
    /\ seen' = MatchEnded(seen)
    /\ UNCHANGED <<teams, conns, ready, turn_order, next_client_id, taskv, lockv,
                   sb, go, finish_order, devs, quiet>>

AdminSetPassword(pw) ==
    /\ AdminReadyOrPaused
    /\ adminOps' = adminOps + 1
    /\ password' = pw
    /\ ResetChallenge
    /\ UNCHANGED <<message, rotate>>

AdminSetMessage(msg) ==
    /\ AdminReadyOrPaused
    /\ adminOps' = adminOps + 1
    /\ message' = msg
    /\ ResetChallenge
    /\ UNCHANGED <<password, rotate>>

\* admin_reset: as _reset_challenge, and every team's READY set cleared
AdminReset ==
    /\ AdminReadyOrPaused
    /\ adminOps' = adminOps + 1
    /\ game_over' = FALSE /\ paused' = FALSE /\ start_flag' = FALSE
    /\ winner_team' = 0
    /\ game' = DroppedGames(game, teams)
    /\ ready' = ClearedReady(ready, teams)
    /\ inbox' = AskReady(inbox)
    /\ seen' = MatchEnded(seen)
    /\ UNCHANGED <<teams, conns, turn_order, next_client_id, taskv, lockv, chal,
                   sb, go, finish_order, devs, quiet>>

Pause ==
    /\ pc[Admin] = "idle"
    /\ start_flag /\ ~game_over
    /\ adminOps' = adminOps + 1
    /\ paused' = TRUE
    /\ UNCHANGED <<tvars, next_client_id, start_flag, game_over, winner_team,
                   taskv, lockv, chal, obs, finish_order, devs, quiet>>

\* the console command, one of the disturbances of a run
AdminPause == CanDisturb /\ Pause

\* admin_resume: unpause and push every team's current step again (the pause
\* before it is the disturbance counted)
AdminResume ==
    /\ pc[Admin] = "idle"
    /\ paused
    /\ UNCHANGED adminOps
    /\ paused' = FALSE
    /\ game' = [t \in TeamSlots |-> IF t \in teams THEN PushGame(game[t], game_over)
                                  ELSE game[t]]
    /\ inbox' = [k \in Clients |->
                    IF tteam[k] \in teams
                    THEN PushInbox(inbox, game[tteam[k]], turn_order[tteam[k]],
                                   conns[tteam[k]], game_over)[k]
                    ELSE inbox[k]]
    /\ seen' = [k \in Clients |->
                    IF tteam[k] \in teams
                    THEN PushSeen(seen, game[tteam[k]], conns[tteam[k]], game_over)[k]
                    ELSE seen[k]]
    /\ UNCHANGED <<teams, conns, ready, turn_order, next_client_id, start_flag,
                   game_over, winner_team, taskv, lockv, chal, sb, go,
                   finish_order, devs, quiet>>

AdminSetRotate(mode) ==
    /\ AdminReady
    /\ ~(start_flag /\ ~game_over)
    /\ adminOps' = adminOps + 1
    /\ rotate' = mode
    /\ UNCHANGED <<password, message, tvars, next_client_id, flags, taskv, lockv,
                   obs, finish_order, devs, quiet>>

(***************************************************************************)
(* the server: every step of every task                                    *)
(***************************************************************************)
\* gaps: whether a client's message may come within RATE_LIMIT_WINDOW of its
\* previous ones (FALSE), after a longer silence (TRUE), or either
ClientStep(k, gaps) ==
    \/ \E t \in TeamIds : Join(k, t)
    \/ BadJoin(k)
    \/ \E gap \in gaps : SendReady(k, gap)
    \/ \E gap \in gaps : ClientStepAnswer(k, gap)
    \/ ClientGone(k)

ServerStep(k) ==
    \/ MaybeStartGlobal(k)
    \/ CountdownTick(k)
    \/ GatedStart(k)
    \/ Loop(k)
    \/ ErrPush(k)
    \/ StepOk(k)
    \/ GameOverCast(k)
    \/ Grant(k)

AdminStep ==
    \/ \E t \in TeamIds : \E c \in 0..MaxClients : AdminKick(t, c)
    \/ GrantAdmin
    \/ KickFinish
    \/ AdminStartNow
    \/ AdminCountdownTick
    \/ ForcedStart
    \/ \E pw \in Passwords : AdminSetPassword(pw)
    \/ \E msg \in Messages : AdminSetMessage(msg)
    \/ AdminReset
    \/ AdminPause
    \/ AdminResume
    \/ \E mode \in {"phase", "block"} : AdminSetRotate(mode)

\* clients that pace their messages: none within RATE_LIMIT_WINDOW of the
\* connection's previous one
Next ==
    \/ \E k \in Clients : ClientStep(k, {TRUE})
    \/ \E k \in Clients : ServerStep(k)
    \/ AdminStep

Spec == Init /\ [][Next]_vars

(***************************************************************************)
(* the lobby alone: connections, READY marks, kicks and the gated start,   *)
(* with every handler that can take a step taking it eventually            *)
(***************************************************************************)
\* the server reads end-of-stream from a socket that it closed itself
SeesClosed(k) == sock[k] = "closed" /\ ClientGone(k)

LobbyServerStep(k) ==
    \/ MaybeStartGlobal(k)
    \/ CountdownTick(k)
    \/ GatedStart(k)
    \/ Grant(k)

LobbyNext ==
    \/ \E k \in Clients : \E t \in TeamIds : Join(k, t)
    \/ \E k \in Clients : SendReady(k, TRUE)
    \/ \E k \in Clients : ClientGone(k)
    \/ \E k \in Clients : LobbyServerStep(k)
    \/ \E t \in TeamIds : \E c \in 0..MaxClients : AdminKick(t, c)
    \/ GrantAdmin
    \/ KickFinish

\* the event loop runs every task that is ready to run
LobbyFairness ==
    /\ \A k \in Clients : WF_vars(LobbyServerStep(k))
    /\ \A k \in Clients : WF_vars(SeesClosed(k))
    /\ WF_vars(GrantAdmin)
    /\ WF_vars(KickFinish)

SpecLobby == Init /\ [][LobbyNext]_vars /\ LobbyFairness

(***************************************************************************)
(* the two start sequences side by side: clients that join and send ready, *)
(* an admin that issues start-now and pause, and nothing else              *)
(***************************************************************************)
StartAdminStep ==
    \/ adminOps < MaxAdminOps /\ StartNow
    \/ adminOps < MaxAdminOps /\ Pause
    \/ AdminCountdownTick
    \/ ForcedStart

StartNext ==
    \/ \E k \in Clients : \E t \in TeamIds : Join(k, t)
    \/ \E k \in Clients : SendReady(k, TRUE) /\ devs' = devs
    \/ \E k \in Clients : LobbyServerStep(k)
    \/ StartAdminStep

SpecStart == Init /\ [][StartNext]_vars

(***************************************************************************)
(* integration_test.perfect_bot: clients that join, send ready once, answer *)
(* every step pushed to them with you_turn = true by the right vector and   *)
(* leave after the scoreboard                                               *)
(***************************************************************************)
BotReady(k, gap) ==
    /\ pc[k] = "idle"
    /\ tcid[k] \notin ready[tteam[k]]
    /\ SendReady(k, gap)

\* solve_step on the step in hand, sent as a step_answer
BotAnswer(k, gap) ==
    /\ pc[k] = "idle" /\ sock[k] = "open"
    /\ inbox[k] # NoMsg /\ inbox[k].vec # None
    /\ go[k] = 0
    /\ last_steps' = Stamp(k, gap)
    /\ sa_stamps' = StampSA(k, gap, TRUE)
    /\ IF RateLimited(k, gap)
       THEN RateLimit(k)
       ELSE StepAnswer(k, inbox[k].phase, JInts(inbox[k].vec))
    /\ inbox' = [inbox EXCEPT ![k] = NoMsg]
    /\ UNCHANGED <<devs, aside>>

BotLeave(k) ==
    /\ pc[k] = "idle"
    /\ sb[k] > 0
    /\ ClientGone(k)

BotStep(k) ==
    \/ \E gap \in BOOLEAN : BotReady(k, gap)
    \/ \E gap \in BOOLEAN : BotAnswer(k, gap)
    \/ BotLeave(k)

BotServerStep(k) ==
    \/ MaybeStartGlobal(k)
    \/ CountdownTick(k)
    \/ GatedStart(k)
    \/ Loop(k)
    \/ StepOk(k)
    \/ GameOverCast(k)
    \/ Grant(k)

BotsNext ==
    \/ \E k \in Clients : \E t \in TeamIds : Join(k, t)
    \/ \E k \in Clients : BotStep(k)
    \/ \E k \in Clients : BotServerStep(k)

\* the event loop runs every task that is ready to run, and a bot acts on
\* every message it is sent
BotsFairness ==
    /\ \A k \in Clients : WF_vars(BotStep(k))
    /\ \A k \in Clients : WF_vars(BotServerStep(k))

SpecBots == Init /\ [][BotsNext]_vars /\ BotsFairness

(***************************************************************************)
(* the rate limit: clients that send right answers at any pace, pongs too, *)
(* and no admin command                                                    *)
(***************************************************************************)
\* lines 235-236: a pong is stamped like every message and otherwise ignored
Pong(k, gap) ==
    /\ pc[k] = "idle" /\ sock[k] = "open"
    /\ tcid[k] \in Range(conns[tteam[k]])
    /\ last_steps' = Stamp(k, gap)
    /\ sa_stamps' = StampSA(k, gap, FALSE)
    /\ UNCHANGED <<srv, aside>>

\* the connections that may send within RATE_LIMIT_WINDOW of their previous
\* message; the others pace their messages
FastClients == {1}
Gaps(k) == IF k \in FastClients THEN BOOLEAN ELSE {TRUE}

\* a step_answer with the right vector for the pending step, sent as often
\* as the client likes (again after a refusal, too)
RateAnswer(k, gap) == ClientStepAnswer(k, gap) /\ devs' = devs

RateNext ==
    \/ \E k \in Clients : \E t \in TeamIds : Join(k, t)
    \/ \E k \in Clients : \E gap \in Gaps(k) : BotReady(k, gap)
    \/ \E k \in Clients : \E gap \in Gaps(k) : RateAnswer(k, gap)
    \/ \E k \in Clients : \E gap \in Gaps(k) : Pong(k, gap)
    \/ \E k \in Clients : BotServerStep(k)

SpecRate == Init /\ [][RateNext]_vars

(***************************************************************************)
(* game_core.validate_step on its own: a GameState built by initial_state  *)
(* and driven by calls with a phase and a vector of the caller's choosing  *)
(***************************************************************************)
VInit ==
    /\ ServerInit
    /\ \E pw \in Passwords : \E msg \in Messages : vst = initial_state(pw, msg, N)
    /\ vlast = NoCall

\* vectors for a call: the one the phase expects now, a wrong one of that
\* length, a short one and the empty list
VVectors(st, phase) ==
    {WrongVec(exp_len(st, phase)), ShortVec, <<>>}
    \cup (IF Expected(st, phase) = None THEN {} ELSE {Expected(st, phase)})

ValidateCall(phase, vector) ==
    LET r == validate_step(vst, phase, vector)
    IN  /\ r.ok \/ vst.errors < MaxErrors
        /\ vst' = r.st
        /\ vlast' = [phase |-> phase, vector |-> vector, ok |-> r.ok, pre |-> vst]
        /\ UNCHANGED <<srv, last_steps, sa_stamps, jmsg, pure>>

VNext ==
    \E phase \in Phases \cup {UnknownPhase} :
    \E vector \in VVectors(vst, phase) : ValidateCall(phase, vector)

SpecV == VInit /\ [][VNext]_vars

(***************************************************************************)
(* derive_prime_from_password called on ASCII passwords of every byte sum  *)
(***************************************************************************)
\* the password of PwLen bytes that is 127, .., 127, r, 0, .., 0 with sum s
PwOfSum(s) ==
    [i \in 1..PwLen |->
        IF i <= s \div 127 THEN 127
        ELSE IF i = (s \div 127) + 1 THEN s % 127 ELSE 0]

PrimeInputs == {PwOfSum(s) : s \in 0..(127 * PwLen)} \cup Passwords

PrimeCall(pw) ==
    /\ pcall = NoPure
    /\ pcall' = [fn |-> "derive_prime_from_password", pw |-> pw]
    /\ pret' = derive_prime_from_password(pw)
    /\ UNCHANGED <<srv, last_steps, sa_stamps, vv, jmsg>>

PrimeNext == \E pw \in PrimeInputs : PrimeCall(pw)

SpecPrime == Init /\ [][PrimeNext]_vars

(***************************************************************************)
(* derive_params_from_password called on 4-character ASCII passwords       *)
(***************************************************************************)
\* "aaDK" .. "jjDK" and the passwords of the server
ParamInputs ==
    {<<a, b, 68, 75>> : a \in 97..(96 + PwSpan), b \in 97..(96 + PwSpan)}
        \cup Passwords

ParamsCall(pw) ==
    /\ pcall = NoPure
    /\ pcall' = [fn |-> "derive_params_from_password", pw |-> pw]
    /\ pret' = derive_params_from_password(pw, N)
    /\ UNCHANGED <<srv, last_steps, sa_stamps, vv, jmsg>>

ParamsNext == \E pw \in ParamInputs : ParamsCall(pw)

SpecParams == Init /\ [][ParamsNext]_vars

(***************************************************************************)
(* hascill.py: encrypt_verbose, then decrypt_verbose on its result          *)
(***************************************************************************)
adDK == <<97, 100, 68, 75>>
\* "PAZ9", "ABCD", "adDK", "a" and the empty password
CipherPasswords == Passwords \cup {adDK, <<97>>, <<>>}
\* the texts of up to MaxText characters among "H", STX and DEL, and "Hils"
Texts == UNION {[1..l -> {72, 2, 127}] : l \in 0..MaxText} \cup Messages

EncryptCall(pw, pt, n) ==
    /\ pcall = NoPure
    /\ pcall' = [fn |-> "encrypt_verbose", pw |-> pw, pt |-> pt, n |-> n]
    /\ pret' = encrypt_verbose(pw, pt, n)
    /\ UNCHANGED <<srv, last_steps, sa_stamps, vv, jmsg>>

DecryptCall ==
    /\ pcall # NoPure /\ pcall.fn = "encrypt_verbose" /\ pret.ok
    /\ pcall' = [fn |-> "decrypt_verbose", pw |-> pcall.pw, pt |-> pcall.pt,
                 n |-> pcall.n, c |-> pret.c]
    /\ pret' = decrypt_verbose(pcall.pw, pret.c, pcall.n)
    /\ UNCHANGED <<srv, last_steps, sa_stamps, vv, jmsg>>

CipherNext ==
    \/ \E pw \in CipherPasswords : \E pt \in Texts : \E n \in 1..MaxBlock :
            EncryptCall(pw, pt, n)
    \/ DecryptCall

SpecCipher == Init /\ [][CipherNext]_vars

(***************************************************************************)
(* hascill.py: pkcs7_pad, then pkcs7_unpad on its result                    *)
(***************************************************************************)
\* lists of up to MaxData values among 0, 1, 2 and 255
PadInputs == UNION {[1..l -> {0, 1, 2, 255}] : l \in 0..MaxData}

PadCall(x, n) ==
    /\ pcall = NoPure
    /\ pcall' = [fn |-> "pkcs7_pad", x |-> x, n |-> n]
    /\ pret' = pkcs7_pad(x, n)
    /\ UNCHANGED <<srv, last_steps, sa_stamps, vv, jmsg>>

UnpadCall ==
    /\ pcall # NoPure /\ pcall.fn = "pkcs7_pad"
    /\ pcall' = [fn |-> "pkcs7_unpad", x |-> pcall.x, n |-> pcall.n,
                 padded |-> pret]
    /\ pret' = pkcs7_unpad(pret)
    /\ UNCHANGED <<srv, last_steps, sa_stamps, vv, jmsg>>

PadNext ==
    \/ \E x \in PadInputs : \E n \in 1..(MaxBlock + 1) : PadCall(x, n)
    \/ UnpadCall

SpecPad == Init /\ [][PadNext]_vars

(***************************************************************************)
(* the handshake alone: connections whose first message is any of          *)
(* FirstMsgs, READY marks and the gated start                              *)
(***************************************************************************)
JoinNext ==
    \/ \E k \in Clients : \E msg \in FirstMsgs : Handshake(k, msg)
    \/ \E k \in Clients : BotReady(k, TRUE)
    \/ \E k \in Clients : ClientGone(k)
    \/ \E k \in Clients : LobbyServerStep(k)

SpecJoin == Init /\ [][JoinNext]_vars

(***************************************************************************)
(* the teams map: the handshake with any first message, and the console    *)
(* commands that take a team argument, kick and team-info                  *)
(***************************************************************************)
\* admin_team_info (lines 520-529), typed while the lock is free: get_team,
\* then prints only
AdminTeamInfo(t) ==
    /\ pc[Admin] = "idle" /\ LockFree
    /\ teams' = teams \cup {t}
    /\ UNCHANGED <<conns, ready, turn_order, game, next_client_id, chal, flags,
                   lockv, taskv, obs, hist, quiet>>

TeamsNext ==
    \/ \E k \in Clients : \E msg \in FirstMsgs : Handshake(k, msg)
    \/ \E k \in Clients : BotReady(k, TRUE)
    \/ \E k \in Clients : SeesClosed(k)
    \/ \E k \in Clients : LobbyServerStep(k)
    \/ \E t \in TeamSlots : AdminTeamInfo(t)
    \/ \E t \in TeamSlots : \E c \in 0..MaxClients : AdminKick(t, c)
    \/ GrantAdmin
    \/ KickFinish

SpecTeams == Init /\ [][TeamsNext]_vars

(***************************************************************************)
(* properties                                                              *)
(***************************************************************************)
\* the phase the progress fields of a GameState say is pending
PendingPhase(st) ==
    IF ~st.ascii_pw_done THEN "TPW"
    ELSE IF ~st.ascii_msg_done THEN "TMSG"
    ELSE st.current_phase

\* C10: validate_step accepts a vector only for the pending phase: TPW only
\* while ascii_pw_done is false, TMSG only while ascii_pw_done and not
\* ascii_msg_done, A..D only while current_phase is that phase with both gates
\* done; a right vector for another phase is rejected and leaves current_phase
\* and the gates alone.
C10_AcceptsOnlyPending ==
    /\ vlast.ok => vlast.phase = PendingPhase(vlast.pre)
    /\ (vlast.phase # "none" /\ vlast.phase # PendingPhase(vlast.pre)) =>
          /\ ~vlast.ok
          /\ vst.current_phase = vlast.pre.current_phase
          /\ vst.ascii_pw_done = vlast.pre.ascii_pw_done
          /\ vst.ascii_msg_done = vlast.pre.ascii_msg_done

\* a run without admin commands and without deviating client messages
Undisturbed == devs = 0 /\ adminOps = 0

\* C1: game_over implies a winner, and within one match the winner, once set,
\* is never replaced by another team; it goes back to none only by an admin
\* reset, rekey or forced start, which also clears game_over.
C1_WinnerOnce ==
    /\ [](game_over => winner_team # 0)
    /\ [][/\ (winner_team # 0 /\ winner_team' # winner_team) =>
                (winner_team' = 0 /\ ~game_over' /\ adminOps' = adminOps + 1)
          /\ (winner_team = 0 /\ winner_team' # 0) => game_over']_vars

\* two teams have finished, both ran the finish branch, and the winner stands
C1_Witness ==
    /\ game_over /\ winner_team # 0
    /\ Len(finish_order) = 2
    /\ \A k \in Clients : pc[k] # "sa_ok" /\ sb[k] = 2

\* C2: when two teams both have their final D validated in one match, the
\* winner is the team whose final D was validated first.
C2_FirstValidatedWins ==
    (Undisturbed /\ game_over /\ Len(finish_order) = 2)
        => winner_team = Head(finish_order)

\* the participants of the match: connected clients in their team's turn queue
Participant(k) ==
    /\ pc[k] \notin {"free", "closed"} /\ sock[k] = "open"
    /\ tteam[k] # 0 /\ tcid[k] \in Range(conns[tteam[k]])
    /\ tcid[k] \in Range(turn_order[tteam[k]])

\* C3: when a match ends by a team finishing, every connection that stays
\* connected gets exactly one scoreboard and exactly one game_over, also when
\* two teams finish in overlapping handlers.
C3_OneScoreboardOneGameOver ==
    Undisturbed =>
        /\ \A k \in Clients : sb[k] <= 1 /\ go[k] <= 1
        /\ game_over => \A k \in Clients : Participant(k) => sb[k] = 1 /\ go[k] = 1

\* task k takes a step of step_answer handling
AnswerStep(k) ==
    \/ pc[k] \in {"idle", "sa_w"}
         /\ pc'[k] \in {"r_none", "r_turn", "r_frozen", "r_rate", "e_arity",
                        "e_wrong", "sa_ok"}
    \/ pc[k] \in {"e_arity", "e_wrong", "sa_ok"} /\ pc'[k] \in {"idle", "sa_go"}
    \/ pc[k] = "sa_go" /\ pc'[k] = "idle"

\* C4: once game_over is true, no step_answer is validated or changes any
\* team's GameState or turn order until a reset, rekey or forced start.
C4_FrozenAfterGameOver ==
    [][(game_over /\ \E k \in Clients : AnswerStep(k))
          => (game' = game /\ turn_order' = turn_order)]_vars

\* task k issues a countdown message of a READY-gated start, or starts the match
GatedCountdownStep(k) ==
    \/ pc[k] # "cd3" /\ pc'[k] = "cd3"
    \/ pc[k] \in {"cd3", "cd2"} /\ pc'[k] \in {"cd2", "cd1"} /\ pc'[k] # pc[k]
    \/ pc[k] = "cd1" /\ pc'[k] # "cd1"

\* C5: a READY-gated start, and each of its countdown messages, happens only
\* in a state where some team has a connected client and every team with
\* connected clients is fully READY.
C5_GatedStartOnlyWhenAllReady ==
    [][(\E k \in Clients : GatedCountdownStep(k))
          => (/\ \E t \in teams : Len(conns[t]) > 0
              /\ \A t \in teams : Len(conns[t]) > 0 =>
                    Cardinality(ready[t]) = Len(conns[t]))]_vars

\* the READY gate is open in the lobby
LobbyGateOpen == ~start_flag /\ ~game_over /\ StartGate(conns, ready, teams)

\* a start has been triggered: its countdown runs or the match has started
StartTriggered == start_flag \/ \E k \in Clients : pc[k] \in {"cd3", "cd2", "cd1"}

\* C6: in the lobby, whenever the READY gate condition holds the start is
\* eventually triggered (unless the condition stops holding first),
\* whichever event made it true: a ready, a disconnect or a kick.
C6_GateOpenLeadsToStart ==
    LobbyGateOpen ~> (StartTriggered \/ ~LobbyGateOpen)

\* the match is over with a winner that finished every block without errors,
\* and every participant has a scoreboard
BotsDone ==
    /\ game_over /\ winner_team # 0
    /\ game[winner_team] # NoGame
    /\ game[winner_team].finished
    /\ game[winner_team].current_block = Len(game[winner_team].v_blocks)
    /\ game[winner_team].errors = 0
    /\ \A k \in Clients : Participant(k) => sb[k] >= 1

\* C7: with clients that all behave as the perfect bot, a match that has a
\* client eventually reaches game_over with a finished, error-free winner and
\* the scoreboard sent, for one player alone in a team as for several.
C7_PerfectBotsFinish ==
    (\E k \in Clients : pc[k] = "idle") ~> BotsDone

\* C8: while a match is in progress, every team with a GameState has as many
\* entries in turn_order as in conns.
C8_TurnOrderMatchesConns ==
    start_flag => \A t \in TeamIds :
        game[t] # NoGame => Len(turn_order[t]) = Len(conns[t])

\* task k's step_answer is dispatched by on_step_answer's turn check while k
\* is not the head of its team's turn queue
NotHeadAnswer(k) ==
    /\ pc[k] \in {"idle", "sa_w"}
    /\ pc'[k] \in {"r_none", "r_turn", "e_arity", "e_wrong", "sa_ok"}
    /\ tteam[k] # 0
    /\ turn_order[tteam[k]] = <<>> \/ Head(turn_order[tteam[k]]) # tcid[k]

C11_SecondSubmissionRejected ==
    [][(/\ vlast.phase \in {"TPW", "TMSG"} /\ vlast.ok
        /\ vlast'.phase = vlast.phase /\ vlast'.vector = vlast.vector
        /\ vlast'.pre = vst)
          => ~vlast'.ok]_vars

\* C12: a call of validate_step that returns failure leaves every field of
\* the GameState but errors as it was, errors growing by at most 1, whatever
\* the phase (gate failures and unknown phases included); and the outcome is
\* the function of (GameState, phase, vector) that validate_step computes.
C12_FailureChangesOnlyErrors ==
    vlast.phase # "none" =>
        /\ vst = validate_step(vlast.pre, vlast.phase, vlast.vector).st
        /\ vlast.ok = validate_step(vlast.pre, vlast.phase, vlast.vector).ok
        /\ ~vlast.ok =>
              /\ [vst EXCEPT !.errors = 0] = [vlast.pre EXCEPT !.errors = 0]
              /\ vst.errors \in {vlast.pre.errors, vlast.pre.errors + 1}

\* a phase B call has just failed at its gate (u is None) on a state that has
\* passed TPW, and the failure was counted
C12_Witness ==
    /\ vlast.phase = "B" /\ ~vlast.ok
    /\ vlast.pre.u = None /\ vlast.pre.ascii_pw_done
    /\ vst.errors = vlast.pre.errors + 1

\* task k's step_answer, sent by the current player with a vector of the right
\* arity for the pending phase, has just been found wrong by validate_step
WrongAnswerStep(k) ==
    /\ pc[k] \in {"idle", "sa_w"} /\ pc'[k] = "e_wrong"
    /\ marg'[k].phase = next_step_phase(game[tteam[k]])

\* C13: a vector of the right arity from the current player that does not
\* match the pending phase's expected value adds exactly 1 to the team's
\* errors, leaves progress and the turn queue as they were, and (the match
\* still running) the same step is pushed again to the current player.
C13_WrongVectorCountsOnce ==
    [][\A k \in Clients :
          /\ WrongAnswerStep(k) =>
                /\ game'[tteam[k]].errors = game[tteam[k]].errors + 1
                /\ [game'[tteam[k]] EXCEPT !.errors = 0]
                      = [game[tteam[k]] EXCEPT !.errors = 0]
                /\ turn_order' = turn_order
          /\ (/\ pc[k] = "e_wrong" /\ pc'[k] = "idle" /\ sock[k] = "open"
              /\ ~game_over /\ ~paused
              /\ marg[k].phase = next_step_phase(game[tteam[k]])) =>
                /\ inbox'[k].phase = marg[k].phase
                /\ turn_order' = turn_order]_vars

\* a step_answer of task k is read by handle_conn
AnswerRead(k) ==
    /\ pc[k] = "idle"
    /\ pc'[k] \in {"r_none", "r_turn", "r_frozen", "r_rate", "e_arity", "e_wrong",
                   "sa_ok", "sa_w"}

\* C14: per connection, a step_answer is refused by the rate limit exactly
\* when it is the 7th or later step_answer of the 2.0 s window: up to 6 in the
\* window are all processed, the refused one is not validated and changes no
\* GameState or turn order, and after the window has aged out a step_answer
\* is processed again.
C14_SixAnswersPerWindow ==
    [][\A k \in Clients : AnswerRead(k) =>
          /\ (pc'[k] = "r_rate") <=> (sa_stamps'[k] > RATE_LIMIT_MAX)
          /\ pc'[k] = "r_rate" => (game' = game /\ turn_order' = turn_order)]_vars

\* the admin resumes a paused match
ResumeStep == paused /\ ~paused' /\ adminOps' = adminOps

\* C15: while paused, no step is dispatched and no step_answer handler
\* validates anything or changes a GameState or a turn queue (so the step
\* pending at resume is the one pending when the pause began); on resume the
\* current player of each team with a GameState is pushed that team's current
\* step.
C15_PausedFreezesSteps ==
    [][/\ (paused /\ \E k \in Clients : AnswerStep(k))
            => (game' = game /\ turn_order' = turn_order)
       /\ (paused /\ paused')
            => \A k \in Clients : inbox'[k] \in {inbox[k], NoMsg}
       /\ (ResumeStep /\ ~game_over)
            => \A k \in Clients :
                  (/\ tteam[k] \in teams
                   /\ game[tteam[k]] # NoGame
                   /\ k \in Receivers(Range(conns[tteam[k]]))
                   /\ tcid[k] = current_player(turn_order[tteam[k]]))
                  => inbox'[k].phase = next_step_phase(game[tteam[k]])]_vars

\* a client that is registered in its team and whose socket takes writes
Connected(k) ==
    /\ sock[k] = "open" /\ tcid[k] # 0
    /\ tcid[k] \in Range(conns[tteam[k]])

\* C16: admin reset sets every team's game to none, winner_team to none,
\* game_over, paused and start_flag to false and empties every team's READY
\* set, and leaves every team's conns and turn_order as they were.
C16_ResetPostState ==
    [][AdminReset =>
          /\ \A t \in TeamIds : game'[t] = NoGame /\ ready'[t] = {}
          /\ winner_team' = 0
          /\ ~game_over' /\ ~paused' /\ ~start_flag'
          /\ conns' = conns /\ turn_order' = turn_order]_vars

\* a player of a finished match (it has the scoreboard and is still in the
\* turn queue) is back in the lobby with its READY mark gone: a reset was
\* issued after game over
C16_Witness ==
    \E k \in Clients :
        /\ Connected(k) /\ sb[k] >= 1
        /\ tcid[k] \in Range(turn_order[tteam[k]])
        /\ tcid[k] \notin ready[tteam[k]]
        /\ ~game_over /\ ~start_flag /\ winner_team = 0
        /\ game[tteam[k]] = NoGame

\* the admin issues set-password or set-message with a valid argument
RekeyStep ==
    \/ \E pw \in Passwords : AdminSetPassword(pw)
    \/ \E msg \in Messages : AdminSetMessage(msg)

MatchFields == <<chal, tvars, next_client_id, flags>>

\* task j holds the lock across its countdown, or is suspended in the middle
\* of its read-modify-write: a step_answer handler between validation and
\* winner election / rotation, start-now between clearing the flags and the
\* start, a kick between its removals
MidHandler(j) ==
    IF j = Admin
    THEN pc[j] \in {"sn2", "sn1", "kick_clear", "kick_one"}
    ELSE pc[j] \in {"cd3", "cd2", "cd1", "sa_ok"}

\* the step is taken by the admin console
AdminActs ==
    adminOps' # adminOps \/ pc'[Admin] # pc[Admin] \/ ResumeStep

\* C18: no admin command and no step_answer handler changes a field of the
\* match controller or of a team while another handler holds the lock or is
\* suspended in the middle of its own read-modify-write of that state.
C18_MutationsAreExclusive ==
    [][MatchFields' # MatchFields =>
          /\ AdminActs => \A j \in Clients : ~MidHandler(j)
          /\ \A k \in Clients :
                (~AdminActs /\ AnswerStep(k))
                    => \A j \in Tasks \ {k} : ~MidHandler(j)]_vars


\* C19: no client receives a step message of a match unless it has earlier
\* received that match's start message, and none receives start before its
\* own joined message, clients joining during a countdown or a match
\* included.
C19_StepAfterStartAfterJoined ==
    \A k \in Clients :
        /\ seen[k] # "step_unstarted"
        /\ seen[k] \in {"start", "step"} => tcid[k] # 0

InMatch(t) == start_flag /\ ~game_over /\ game[t] # NoGame

\* the step in which on_disconnect removes client k from its team
LeaveStep(k) == tcid[k] # 0 /\ pc[k] # "closed" /\ pc'[k] = "closed"

\* the step in which admin_kick removes one client from team t's turn queue
KickStep(t) ==
    /\ pc[Admin] = "kick_one" /\ pc'[Admin] = "idle"
    /\ marg[Admin].vec[1] = t

TurnPassed(t) == turn_order'[t] = Tail(turn_order[t]) /\ game'[t] = game[t]

AcceptedDone(k) ==
    pc[k] = "sa_ok" /\ pc'[k] # "sa_ok" /\ game[tteam[k]] # NoGame

\* task k's handler refuses a step_answer, or finishes a refused one
RejectedStep(k) ==
    \/ pc[k] \in {"idle", "sa_w"}
         /\ pc'[k] \in {"r_none", "r_turn", "r_frozen", "r_rate", "e_arity",
                        "e_wrong"}
    \/ pc[k] \in {"e_arity", "e_wrong"} /\ pc'[k] = "idle"

\* C22: with rotate = phase the team's turn queue is rotated by one after
\* every accepted step, TPW and TMSG included; with rotate = block only
\* after an accepted D; a rejected step never rotates.
C22_RotationPolicy ==
    [][\A k \in Clients :
          /\ AcceptedDone(k) =>
                turn_order'[tteam[k]] =
                    IF rotate = "phase" \/ marg[k].phase = "D"
                    THEN rotate_left(turn_order[tteam[k]])
                    ELSE turn_order[tteam[k]]
          /\ RejectedStep(k) => turn_order' = turn_order]_vars


\* a join whose team is an integer of 1..MAX_TEAMS
StrictJoin(msg) ==
    msg.type = "join" /\ msg.team.tag = "int" /\ msg.team.n \in 1..MAX_TEAMS

\* C23: a connection whose first message is not a join with an integer team
\* in 1..6 is closed without being given a client id, without being added to
\* any team's conns, ready or turn_order, and without creating a team.
C23_BadFirstMessageRefused ==
    [][\A k \in Clients :
          (jmsg[k] = NoJoin /\ jmsg'[k] # NoJoin /\ ~StrictJoin(jmsg'[k]))
          => /\ pc'[k] = "closed" /\ sock'[k] = "closed"
             /\ tcid'[k] = 0
             /\ next_client_id' = next_client_id
             /\ tvars' = tvars]_vars


\* q is prime: no number of 2 .. q - 1 divides it
Prime(q) == q > 1 /\ \A d \in 2..(q - 1) : q % d # 0

\* C24: for every ASCII password derive_prime_from_password returns m that
\* is prime, with (m - 1) mod 3 # 0 and m >= 257, and is the smallest such
\* prime that is >= 257 + (sum of the password's bytes mod 1000).
C24_DerivedPrime ==
    pcall.fn = "derive_prime_from_password" =>
        LET seed == 257 + (SumSeq(pcall.pw) % 1000)
        IN  /\ Prime(pret) /\ (pret - 1) % 3 # 0 /\ pret >= 257
            /\ pret >= seed
            /\ \A q \in seed..(pret - 1) : ~(Prime(q) /\ (q - 1) % 3 # 0)

\* a password whose byte sum is past 1000 and whose seed is not itself the
\* result
C24_Witness ==
    /\ pcall.fn = "derive_prime_from_password"
    /\ SumSeq(pcall.pw) > 1000
    /\ pret > 257 + (SumSeq(pcall.pw) % 1000)


\* C25: for every valid 4-ASCII password and n = 2, derive_params_from_password
\* returns, within its 16 attempts and without raising, a matrix M with
\* det_mod(M, m) # 0.
C25_DerivedMatrixInvertible ==
    pcall.fn = "derive_params_from_password" =>
        /\ pret.ok
        /\ (pret.M[1][1] * pret.M[2][2] - pret.M[1][2] * pret.M[2][1]) % pret.m # 0


\* "Hils" padded to 72, 105, 108, 115, 2, 2 and cut in blocks of 2
HilsBlocks == <<<<72, 105>>, <<108, 115>>, <<2, 2>>>>

IsPAZ9Hils(st) == st # NoGame /\ st.password = PAZ9 /\ st.message = Hils

\* C26: for password PAZ9 the derived modulus is m = 521, and message Hils
\* with n = 2 is padded to [72,105,108,115,2,2], giving 3 plaintext blocks.
C26_PAZ9Gives521 ==
    IsPAZ9Hils(vst) =>
        /\ vst.m = 521
        /\ vst.v_blocks = HilsBlocks /\ Len(vst.v_blocks) = 3

\* C26 as amended: the derived modulus is m = 557 (byte sum 292, seed 549,
\* 556 mod 3 = 1); the padding and the 3 blocks are as claimed.
C26_PAZ9Gives557 ==
    IsPAZ9Hils(vst) =>
        /\ vst.m = 557 /\ (vst.m - 1) % 3 = 1
        /\ vst.v_blocks = HilsBlocks /\ Len(vst.v_blocks) = 3

\* the PAZ9 / Hils game with its three blocks played to the end
C26_Witness ==
    IsPAZ9Hils(vst) /\ vst.finished /\ vst.current_block = 3


\* the chaining vectors prev of a run over the blocks c: IV, then c[i-1]
Chained(prev, IV, c) ==
    /\ Len(prev) = Len(c)
    /\ \A i \in 1..Len(prev) : prev[i] = IF i = 1 THEN IV ELSE c[i - 1]

\* C27: for every ASCII password and ASCII plaintext, decrypting the blocks
\* produced by encryption with the same password and n returns the original
\* plaintext, the chaining vector being IV for block 0 and c_{i-1} for
\* block i in both directions.
C27_DecryptInvertsEncrypt ==
    /\ (pcall # NoPure /\ pcall.fn = "encrypt_verbose") =>
            pret.ok /\ Chained(pret.prev, pret.IV, pret.c)
    /\ (pcall # NoPure /\ pcall.fn = "decrypt_verbose") =>
            /\ pret.ok /\ pret.text = pcall.pt
            /\ Chained(pret.prev, pret.IV, pcall.c)

\* C28: for every sequence x of byte values and block size n >= 1,
\* pkcs7_unpad(pkcs7_pad(x, n)) = x and the length of pkcs7_pad(x, n) is a
\* positive multiple of n, a full block being added when Len(x) is one.
C28_UnpadInvertsPad ==
    /\ (pcall # NoPure /\ pcall.fn = "pkcs7_pad") =>
            /\ Len(pret) > 0 /\ Len(pret) % pcall.n = 0
            /\ Len(pcall.x) % pcall.n = 0 => Len(pret) = Len(pcall.x) + pcall.n
    /\ (pcall # NoPure /\ pcall.fn = "pkcs7_unpad") =>
            pret.ok /\ pret.v = pcall.x

\* a list that fills its blocks and ends like a padding, padded by a full
\* block and unpadded again
C28_Witness ==
    /\ pcall # NoPure /\ pcall.fn = "pkcs7_unpad"
    /\ pcall.x = <<1, 2, 2, 2>> /\ pcall.n = 2
    /\ Len(pcall.padded) = 6


\* C29: an accepted phase D appends c to c_blocks, sets prev_vec to c, clears
\* u, u' and w, adds exactly 1 to current_block, sets current_phase to A and
\* sets finished exactly when current_block reaches Len(v_blocks); in every
\* reachable state prev_vec is IV while current_block = 0 and
\* c_blocks[current_block - 1] otherwise, and finished holds iff
\* current_block = Len(v_blocks).
C29_BlockCompletion ==
    /\ (vlast.phase = "D" /\ vlast.ok) =>
            /\ vst.c_blocks = Append(vlast.pre.c_blocks, vlast.vector)
            /\ vst.prev_vec = vlast.vector
            /\ vst.u = None /\ vst.uprime = None /\ vst.w = None
            /\ vst.current_block = vlast.pre.current_block + 1
            /\ vst.current_phase = "A"
    /\ Len(vst.c_blocks) = vst.current_block
    /\ vst.prev_vec = IF vst.current_block = 0 THEN vst.IV
                      ELSE vst.c_blocks[vst.current_block]
    /\ vst.finished <=> vst.current_block = Len(vst.v_blocks)

\* the second block has just been completed by an accepted D
C29_Witness ==
    /\ vlast.phase = "D" /\ vlast.ok
    /\ vst.current_block = 2 /\ ~vst.finished
    /\ vst.prev_vec # vst.IV /\ vst.prev_vec # vst.c_blocks[1]

\* C30: in every reachable GameState the intermediates are non-null only for
\* the phases later in the current block: u iff current_phase is B, C or D,
\* u' iff it is C or D, w iff it is D.
C30_IntermediatesFollowPhase ==
    /\ vst.u # None <=> vst.current_phase \in {"B", "C", "D"}
    /\ vst.uprime # None <=> vst.current_phase \in {"C", "D"}
    /\ vst.w # None <=> vst.current_phase = "D"

\* a JSON list of len integers (true and false are not integers)
IntList(vec, len) ==
    /\ vec.tag = "list"
    /\ Len(vec.items) = len
    /\ \A j \in 1..Len(vec.items) : vec.items[j].tag = "int"

\* C31: a step_answer from the current player whose vector is not a list of
\* integers of the expected length (4 for TPW/TMSG, n for A..D) is rejected
\* with the arity error: only a list of that many integers reaches
\* validate_step, the rejection adds exactly 1 to the team's errors and
\* changes no other GameState field and no turn queue, and the push that
\* follows leaves the GameState and the turn queues as they are.
C31_ArityViolationRejected ==
    [][\A k \in Clients :
          LET t == tteam[k]
          IN  /\ (pc[k] \in {"idle", "sa_w"} /\ pc'[k] \in {"e_wrong", "sa_ok"})
                    => IntList(marg'[k].vec, exp_len(game[t], marg'[k].phase))
              /\ (pc[k] \in {"idle", "sa_w"} /\ pc'[k] = "e_arity")
                    => /\ game'[t] = [game[t] EXCEPT !.errors = @ + 1]
                       /\ turn_order' = turn_order
              /\ (pc[k] = "e_arity" /\ pc'[k] = "idle")
                    => /\ game' = game
                       /\ turn_order' = turn_order]_vars

\* C32: only step_answer messages consume rate-limit budget: a message that
\* is not a step_answer (ready, pong, unknown type) adds no entry to the
\* connection's sliding window, so a step_answer that is at most the 6th
\* step_answer of its 2.0 s window is never refused by the rate limit,
\* however many other messages the connection sent.
C32_OnlyAnswersUseBudget ==
    [][\A k \in Clients :
          /\ sa_stamps'[k] <= sa_stamps[k] => last_steps'[k] <= last_steps[k]
          /\ (AnswerRead(k) /\ sa_stamps'[k] <= RATE_LIMIT_MAX)
                => pc'[k] # "r_rate"]_vars

\* a GameState as initial_state leaves it
Fresh(g) ==
    /\ g # NoGame
    /\ g.current_phase = "TPW" /\ g.current_block = 0 /\ g.errors = 0
    /\ ~g.ascii_pw_done /\ ~g.ascii_msg_done /\ ~g.finished

\* task k ends the countdown of a READY-gated start with the start itself
GatedStartStep(k) == pc[k] = "cd1" /\ pc'[k] = "idle"

\* C33: a READY-gated start counts down 3, 2, 1 in that order, then gives
\* every team with a connected client a fresh GameState (phase TPW, block 0,
\* errors 0) and a turn_order equal to its connections in join order,
\* broadcasts start and pushes TPW to each such team; a team without
\* connections gets no GameState.
C33_GatedStartSequence ==
    [][\A k \in Clients :
          /\ (pc'[k] = "cd2" /\ pc[k] # "cd2") => pc[k] = "cd3"
          /\ (pc'[k] = "cd1" /\ pc[k] # "cd1") => pc[k] = "cd2"
          /\ GatedStartStep(k) =>
                \A t \in teams :
                   IF Len(conns[t]) > 0
                   THEN /\ Fresh(game'[t])
                        /\ turn_order'[t] = conns[t]
                        /\ \A c \in Receivers(Range(conns[t])) :
                              tteam[c] = t =>
                                 /\ seen'[c] = "step"
                                 /\ tcid[c] = Head(conns[t])
                                       => inbox'[c].phase = "TPW"
                   ELSE game'[t] = NoGame]_vars

\* a countdown of a READY-gated start, or of a start-now, is in progress
GatedCountdown == \E k \in Clients : pc[k] \in {"cd3", "cd2", "cd1"}
ForcedCountdown == pc[Admin] \in {"sn2", "sn1"}

\* _do_start initialises the GameStates: the end of either countdown
StartStep ==
    \/ \E k \in Clients : GatedStartStep(k)
    \/ pc[Admin] = "sn1" /\ pc'[Admin] = "idle"

\* C37: at most one start sequence runs at a time and each team's GameState
\* is initialised once per match: no countdown begins while the other kind
\* is in progress, and no start initialises GameStates while a team has the
\* GameState of a match that is still running.
C37_OneStartPerMatch ==
    [][/\ (~GatedCountdown /\ GatedCountdown') => ~ForcedCountdown
       /\ (~ForcedCountdown /\ ForcedCountdown') => ~GatedCountdown
       /\ StartStep => \A t \in teams : ~InMatch(t)]_vars

\* C34: a GameState reaches finished only after both the TPW and the TMSG
\* step have been accepted: finished implies ascii_pw_done and
\* ascii_msg_done, whatever phases the calls name.
C34_FinishedAfterTranslations ==
    vst.finished => (vst.ascii_pw_done /\ vst.ascii_msg_done)

\* C35: in every reachable GameState, whatever order and phases the accepted
\* and rejected submissions came in, len(c_blocks) = current_block and
\* c_blocks is the prefix of that length of the reference encryption
\* (hascill.encrypt_verbose) of the message under the password; a finished
\* GameState holds the whole ciphertext.
C35_CBlocksPrefixOfReference ==
    LET ref == encrypt_verbose(vst.password, vst.message, vst.n)
    IN  /\ ref.ok
        /\ Len(vst.c_blocks) = vst.current_block
        /\ vst.current_block <= Len(ref.c)
        /\ vst.c_blocks = SubSeq(ref.c, 1, vst.current_block)
        /\ vst.finished => vst.c_blocks = ref.c

\* a GameState finished through rejected submissions and without its TPW step
C35_Witness ==
    /\ vst.finished /\ ~vst.ascii_pw_done /\ vst.errors > 0
    /\ Len(vst.c_blocks) = 3
    /\ vst.c_blocks[2] # vst.c_blocks[1]

\* no handler and no console command is part-way through
AtRest == lockq = <<>> /\ \A j \in Tasks : pc[j] \in {"idle", "free", "closed"}

\* C36: during an active match every team that has a GameState and at least
\* one connected client has, between handlers, a current player who is one
\* of its connected clients, also after every original player has left and
\* a new client has joined the team mid-match.
C36_CurrentPlayerConnected ==
    AtRest => \A t \in teams :
        (InMatch(t) /\ Len(conns[t]) > 0)
            => current_player(turn_order[t]) \in Range(conns[t])

\* no id occurs twice in the queue
NoRepeat(to) == \A i, j \in 1..Len(to) : to[i] = to[j] => i = j

\* C38: in every reachable state each team's READY set and turn_order hold
\* only ids of clients in that team's conns, and turn_order holds no id
\* twice, after any interleaving of join, ready, disconnect, kick, start and
\* reset.
C38_ReadyAndQueueWithinConns ==
    \A t \in teams :
        /\ ready[t] \subseteq Range(conns[t])
        /\ Range(turn_order[t]) \subseteq Range(conns[t])
        /\ NoRepeat(turn_order[t])

\* C39: the teams map only ever contains team ids in 1..MAX_TEAMS, whatever
\* clients join and whatever team argument kick and team-info are given.
C39_TeamsWithinMaxTeams == teams \subseteq 1..MAX_TEAMS

\* set-password has replaced the password the server started with
Rekeyed == password # PAZ9

\* the READY gate opens: a READY-gated countdown begins
GateOpens == ~GatedCountdown /\ GatedCountdown'

\* C40: after set-message or set-password has returned the teams to the
\* lobby, the next READY-gated start happens only after every connected
\* client has sent ready after the rekey: when the gate opens no connected
\* client still holds the task "ready" the rekey sent it unanswered.
C40_ReadyAfterRekey ==
    [][(GateOpens /\ Rekeyed) =>
          \A k \in Clients : Connected(k) => inbox[k] # ReadyTask]_vars

====
